---------------------------- MODULE Spec2Model ----------------------------
(***************************************************************************)
(* Model of the Coyote BLE device driver (src/device/coyote/device.py).    *)
(*                                                                         *)
(* The driver runs one asyncio event loop.  On it run the connection loop  *)
(* (_connection_loop, task "L") and, when stop() schedules it, the         *)
(* coroutine disconnect() (task "D").  Coroutines interleave only at their *)
(* await points, so every action below is the synchronous code between two *)
(* awaits.  reset_connection() is a plain method called from the UI        *)
(* thread; link drops and notifications come from the BLE stack.           *)
(***************************************************************************)
EXTENDS Integers, Sequences, FiniteSets, TLC

\* ---- bounds of the model ------------------------------------------------
MaxStreak == 3      \* cap of the scan / connect failure streak counters
MaxSessions == 2    \* links the peripheral accepts in one run
MaxTime == 300      \* the clock stops the loop here (ticks of 0.1 s)
MaxRawHz == 260     \* largest control value given to create_pulse

\* ---- program constants --------------------------------------------------
SEQUENCE_MODULO == 16
INTERP_ABSOLUTE_SET == 3
INTERP_NO_CHANGE == 0
max_retries == 3
CMD_B0 == 176
PULSES_PER_PACKET == 4
B0_NO_PULSES_PAD_BYTES == 16
cached_connect_failure_limit == 3
CMD_POWER_UPDATE == 177
CMD_ACK == 81
CMD_ACTIVE_POWER == 83
InitialSequenceNumber == 1
\* durations, in ticks of 0.1 s
sleep_iteration == 1            \* asyncio.sleep(0.1) at the end of an iteration
sleep_services == 5             \* asyncio.sleep(0.5) after service discovery
sleep_connected == 10           \* asyncio.sleep(1) of the CONNECTED branch
parameter_resend_period == 50   \* current_time - _last_parameter_resend >= 5
battery_poll_period == 100      \* current_time - _last_battery_poll >= 10

DISCONNECTED == "DISCONNECTED"
SCANNING == "SCANNING"
CONNECTING == "CONNECTING"
SERVICE_DISCOVERY == "SERVICE_DISCOVERY"
STATUS_SUBSCRIBE == "STATUS_SUBSCRIBE"
SYNC_PARAMETERS == "SYNC_PARAMETERS"
CONNECTED == "CONNECTED"

ConnectionStage ==
    {DISCONNECTED, SCANNING, CONNECTING, SERVICE_DISCOVERY,
     STATUS_SUBSCRIBE, SYNC_PARAMETERS, CONNECTED}

Tasks == {"L", "D", "C", "U", "V"}

None == <<>>               \* an Optional argument that is None
Some(x) == <<x>>           \* an Optional argument that is given

\* what the environment supplies
ParameterChoices == {<<200, 180, 160, 140, 10, 20>>,
                     <<256, 180, 160, 140, 10, 20>>}
StrengthChoices == {None, Some(<<5, 6>>)}   \* strengths a caller passes
NotificationData ==                          \* payloads the link delivers
    {<<CMD_ACTIVE_POWER, 0, 7, 9>>, <<CMD_ACK, 3, 0, 0>>}
\* status payloads of every length from 0 to 4 bytes: each command id and an
\* unknown one, strength bytes at and above the limit of 200
StatusPayloads ==
    {<<>>,
     <<CMD_POWER_UPDATE>>, <<CMD_ACK, 3>>, <<CMD_ACTIVE_POWER, 0, 7>>, <<0>>,
     <<CMD_POWER_UPDATE, 0, 200, 0>>, <<CMD_POWER_UPDATE, 0, 7, 255>>,
     <<CMD_ACK, 3, 0, 0>>, <<CMD_ACTIVE_POWER, 0, 7, 9>>, <<0, 0, 0, 0>>}

\* a task's send in flight: the command built and the call's arguments
NoCall == [command |-> <<>>, strengths |-> None, pulses |-> None]

VARIABLES
    connection_stage,      \* self.connection_stage
    client,                \* self.client: "none" (None) or "handle"
    link_up,               \* is_connected of the handle created last
    subscribed,            \* start_notify succeeded on that handle
    running,               \* self.running
    algorithm,             \* self.algorithm: "none" (None) or "alg"
    shutdown,              \* self._shutdown
    force_disconnect,      \* self._force_disconnect
    sequence_number,       \* self.sequence_number
    first_active_power_seen,
    had_successful_connection,
    strengths,             \* self.strengths, <<channel_a, channel_b>>
    parameters,            \* self.parameters, the six bytes of CoyoteParams
    last_device_address,   \* self._last_device_address: "none" or an address
    persisted_address,     \* ui_settings.coyote_last_device_address
    using_cached_address,
    cached_connect_failure_count,
    skip_cached_reconnect_scans,
    next_scan_time,        \* 0 = 0.0, 1 = a deadline that was set
    scan_attempt_counter,
    scan_failure_streak,
    connect_failure_streak,
    is_win,                \* sys.platform.startswith("win")
    pc,                    \* per task: the await the task is suspended at
    ret,                   \* connection loop: why this iteration called
                           \* _disconnect_client ("none": it did not)
    att,                   \* per task: index of the write attempt in flight
    stale,                 \* per task: the write in flight is on a dead link
    call,                  \* per task: the write in flight and its arguments
    deferred,              \* _scan_for_device: deferred_cached_address is set
    prev_stage,            \* _connection_loop: prev_stage
    trail,                 \* stages assigned since the stage was last SCANNING
    sessions,              \* links established so far
    session_first_done,    \* an ActivePower was handled on this link
    reported,              \* what the ActivePower handler logged in this step
    returned,              \* what a send_command call returned in this step
    written,               \* the command the link accepted in this step
    exception,             \* the exception a coroutine left with in this step
    cached_fail_run,       \* connect failures on the cached address in a row
    delivered,             \* the status payload handled in this step
    forwarded,             \* update loop: a packet handed to send_command in this step
    pulse,                 \* create_pulse: the arguments and the pulse of the call made in this step
    branch,                \* _connection_loop: the branch the iteration under way has taken
    zero_on_link,          \* a strengths=(0,0) command was written on the handle created last
    scan_steps,            \* _scan_for_device: the steps the scan attempt under way has tried
    scanned,               \* the result of the _scan_for_device call that returned in this step
    power_levels_changed,  \* what power_levels_changed emitted in this step
    last_ack,              \* the sequence nibble of the acknowledgement-requesting frame written last
    settled,               \* from here on scans find the device and link operations succeed
    called,                \* the arguments of the send_command call begun
                           \* in this step
    now,                   \* time.time(), in ticks of 0.1 s
    last_battery_poll,     \* self._last_battery_poll
    last_parameter_resend, \* self._last_parameter_resend
    connected_at,          \* the time the stage last became CONNECTED
    resends,               \* parameter frames written in the 5 s after that
    quiet                  \* nothing else has happened since then

progVars ==
    <<connection_stage, client, link_up, subscribed, running, algorithm,
      shutdown, force_disconnect, sequence_number, first_active_power_seen,
      had_successful_connection, strengths, parameters>>
scanVars ==
    <<last_device_address, persisted_address, using_cached_address,
      cached_connect_failure_count, skip_cached_reconnect_scans,
      next_scan_time, scan_attempt_counter, scan_failure_streak,
      connect_failure_streak, is_win>>
taskVars == <<pc, ret, att, stale, call, deferred, prev_stage>>
histVars ==
    <<trail, sessions, session_first_done, reported, returned, written,
      called, delivered, forwarded, pulse, branch, zero_on_link, scan_steps, scanned, power_levels_changed, last_ack, settled,
      exception,
      cached_fail_run>>
clockVars ==
    <<now, last_battery_poll, last_parameter_resend, connected_at, resends,
      quiet>>
vars == <<progVars, scanVars, taskVars, histVars, clockVars>>

\* ---- the program state as one record, so that handlers compose ----------
Cur ==
    [connection_stage |-> connection_stage, client |-> client,
     link_up |-> link_up, subscribed |-> subscribed, running |-> running,
     algorithm |-> algorithm,
     shutdown |-> shutdown, force_disconnect |-> force_disconnect,
     sequence_number |-> sequence_number,
     first_active_power_seen |-> first_active_power_seen,
     had_successful_connection |-> had_successful_connection,
     strengths |-> strengths, parameters |-> parameters,
     last_device_address |-> last_device_address,
     persisted_address |-> persisted_address,
     using_cached_address |-> using_cached_address,
     cached_connect_failure_count |-> cached_connect_failure_count,
     skip_cached_reconnect_scans |-> skip_cached_reconnect_scans,
     next_scan_time |-> next_scan_time,
     scan_attempt_counter |-> scan_attempt_counter,
     scan_failure_streak |-> scan_failure_streak,
     connect_failure_streak |-> connect_failure_streak,
     is_win |-> is_win, pc |-> pc, ret |-> ret, att |-> att,
     stale |-> stale, call |-> call, deferred |-> deferred,
     prev_stage |-> prev_stage, trail |-> trail, sessions |-> sessions,
     session_first_done |-> session_first_done,
     reported |-> <<>>,        \* the outputs of the step taken, not state
     returned |-> <<>>, written |-> NoCall,
     called |-> <<>>,
     settled |-> settled,
     last_ack |-> last_ack,
     power_levels_changed |-> <<>>,
     scanned |-> <<>>,
     scan_steps |-> scan_steps,
     zero_on_link |-> zero_on_link,
     branch |-> branch,
     pulse |-> <<>>,
     forwarded |-> <<>>,
     delivered |-> <<>>,
     exception |-> "none",
     cached_fail_run |-> cached_fail_run,
     now |-> now, last_battery_poll |-> last_battery_poll,
     last_parameter_resend |-> last_parameter_resend,
     connected_at |-> connected_at, resends |-> resends, quiet |-> quiet]

Commit(s0) ==
    \E s \in {s0} :
      /\ connection_stage' = s.connection_stage
      /\ client' = s.client
      /\ link_up' = s.link_up
      /\ subscribed' = s.subscribed
      /\ running' = s.running
      /\ algorithm' = s.algorithm
      /\ shutdown' = s.shutdown
      /\ force_disconnect' = s.force_disconnect
      /\ sequence_number' = s.sequence_number
      /\ first_active_power_seen' = s.first_active_power_seen
      /\ had_successful_connection' = s.had_successful_connection
      /\ strengths' = s.strengths
      /\ parameters' = s.parameters
      /\ last_device_address' = s.last_device_address
      /\ persisted_address' = s.persisted_address
      /\ using_cached_address' = s.using_cached_address
      /\ cached_connect_failure_count' = s.cached_connect_failure_count
      /\ skip_cached_reconnect_scans' = s.skip_cached_reconnect_scans
      /\ next_scan_time' = s.next_scan_time
      /\ scan_attempt_counter' = s.scan_attempt_counter
      /\ scan_failure_streak' = s.scan_failure_streak
      /\ connect_failure_streak' = s.connect_failure_streak
      /\ is_win' = s.is_win
      /\ pc' = s.pc
      /\ ret' = s.ret
      /\ att' = s.att
      /\ stale' = s.stale
      /\ call' = s.call
      /\ deferred' = s.deferred
      /\ prev_stage' = s.prev_stage
      /\ trail' = s.trail
      /\ sessions' = s.sessions
      /\ session_first_done' = s.session_first_done
      /\ reported' = s.reported
      /\ returned' = s.returned
      /\ written' = s.written
      /\ called' = s.called
      /\ settled' = s.settled
      /\ last_ack' = s.last_ack
      /\ power_levels_changed' = s.power_levels_changed
      /\ scanned' = s.scanned
      /\ scan_steps' = s.scan_steps
      /\ zero_on_link' = s.zero_on_link
      /\ branch' = s.branch
      /\ pulse' = s.pulse
      /\ forwarded' = s.forwarded
      /\ delivered' = s.delivered
      /\ exception' = s.exception
      /\ cached_fail_run' = s.cached_fail_run
      /\ now' = s.now
      /\ last_battery_poll' = s.last_battery_poll
      /\ last_parameter_resend' = s.last_parameter_resend
      /\ connected_at' = s.connected_at
      /\ resends' = s.resends
      /\ quiet' = s.quiet

\* self.client and self.client.is_connected
is_connected(s) == s.client = "handle" /\ s.link_up

\* an assignment to self.connection_stage
SetStage(s, st) ==
    [s EXCEPT !.connection_stage = st,
              !.trail = IF st = SCANNING THEN <<>>
                        ELSE IF st = s.connection_stage THEN @
                        ELSE Append(@, st)]

\* ---- send_command --------------------------------------------------------
ZeroPulse == [duration |-> 0, intensity |-> 0]
\* CoyotePulses(channel_a=[zero]*PULSES_PER_PACKET, channel_b=[zero]*...)
zero_pulses ==
    [channel_a |-> [i \in 1..PULSES_PER_PACKET |-> ZeroPulse],
     channel_b |-> [i \in 1..PULSES_PER_PACKET |-> ZeroPulse]]

\* any(p.intensity < 0 or p.intensity > 100 for p in channel)
invalid_channel(ch) ==
    \E i \in 1..Len(ch) : ch[i].intensity < 0 \/ ch[i].intensity > 100

Durations(ch) == [i \in 1..Len(ch) |-> ch[i].duration]
Intensities(ch) == [i \in 1..Len(ch) |-> ch[i].intensity]

\* the control byte: (seq if request_ack else 0) << 4 | interp_a << 2 | interp_b
control_byte(seq, str) ==
    LET request_ack == str # None
        interp_a == IF str # None THEN INTERP_ABSOLUTE_SET ELSE INTERP_NO_CHANGE
        interp_b == IF str # None THEN INTERP_ABSOLUTE_SET ELSE INTERP_NO_CHANGE
    IN  (IF request_ack THEN seq ELSE 0) * 16 + interp_a * 4 + interp_b

\* the pulses argument taken as it is, without the intensity validation
valid_pulses_unchecked(pul) == pul

\* valid_pulses: the pulses argument, or None when an intensity is invalid
valid_pulses(pul) ==
    IF pul # None /\ (invalid_channel(pul[1].channel_a)
                      \/ invalid_channel(pul[1].channel_b))
    THEN None ELSE pul

\* the B0 command of send_command, a sequence of bytes
BuildCommand(seq, str, pul) ==
    <<CMD_B0, control_byte(seq, str),
      IF str # None THEN str[1][1] ELSE 0,
      IF str # None THEN str[1][2] ELSE 0>>
    \o (IF valid_pulses(pul) # None
        THEN Durations(valid_pulses(pul)[1].channel_a)
             \o Intensities(valid_pulses(pul)[1].channel_a)
             \o Durations(valid_pulses(pul)[1].channel_b)
             \o Intensities(valid_pulses(pul)[1].channel_b)
        ELSE [i \in 1..B0_NO_PULSES_PAD_BYTES |-> 0])

\* pulses a caller passes: none, a valid packet, a packet with one
\* intensity above 100 in channel B
PulseChoices ==
    {None,
     Some([channel_a |-> [i \in 1..PULSES_PER_PACKET |->
                            [duration |-> 10, intensity |-> 50]],
           channel_b |-> [i \in 1..PULSES_PER_PACKET |->
                            [duration |-> 20, intensity |-> 100]]]),
     Some([channel_a |-> [i \in 1..PULSES_PER_PACKET |->
                            [duration |-> 10, intensity |-> 50]],
           channel_b |-> [i \in 1..PULSES_PER_PACKET |->
                            [duration |-> 20,
                             intensity |-> IF i = 2 THEN 101 ELSE 0]]]),
     Some([channel_a |-> [i \in 1..PULSES_PER_PACKET |->
                            [duration |-> 256, intensity |-> 50]],
           channel_b |-> [i \in 1..PULSES_PER_PACKET |->
                            [duration |-> 20, intensity |-> 100]]])}

\* a sequence number that counts without wrapping
NextSequenceUnbounded(n) == n + 1

\* the sequence number after a successful write
NextSequence(n) == (n + 1) % SEQUENCE_MODULO

\* bytearray([...]) and bytearray.extend accept only values in range(256)
\* and raise ValueError otherwise
fits_bytes(command) == \A i \in 1..Len(command) : command[i] \in 0..255

\* send_command without the optimistic update of self.strengths
send_command_begin_no_preview(s0, t, str, pul, wpc) ==
    LET s == [s0 EXCEPT !.called = <<[strengths |-> str, pulses |-> pul]>>]
        command == BuildCommand(s.sequence_number, str, pul)
    IN
    IF ~is_connected(s) \/ (str = None /\ pul = None)
    THEN [s EXCEPT !.pc[t] = "ret_false", !.returned = <<FALSE>>]
    ELSE IF ~fits_bytes(command)
    THEN [s EXCEPT !.pc[t] = "raised", !.exception = "ValueError"]
    ELSE [s EXCEPT !.call[t] =
                       [command |-> command,
                        strengths |-> str, pulses |-> pul],
                   !.att[t] = 0, !.stale[t] = FALSE, !.pc[t] = wpc]

\* send_command up to its first await.  The task is left at wpc with the
\* write in flight, at "ret_false" when the call returned False, or at
\* "raised" when building the command raised ValueError (no try encloses
\* the construction of the bytearray).
send_command_begin(s0, t, str, pul, wpc) ==
    LET s == [s0 EXCEPT !.called = <<[strengths |-> str, pulses |-> pul]>>]
        command == BuildCommand(s.sequence_number, str, pul)
    IN
    IF ~is_connected(s)
    THEN [s EXCEPT !.strengths = IF str # None THEN str[1] ELSE @,
                   !.pc[t] = "ret_false", !.returned = <<FALSE>>]
    ELSE IF str = None /\ pul = None
    THEN [s EXCEPT !.pc[t] = "ret_false", !.returned = <<FALSE>>]
    ELSE IF ~fits_bytes(command)
    THEN [s EXCEPT !.pc[t] = "raised", !.exception = "ValueError"]
    ELSE [s EXCEPT !.call[t] =
                       [command |-> command,
                        strengths |-> str, pulses |-> pul],
                   !.att[t] = 0, !.stale[t] = FALSE, !.pc[t] = wpc]

\* the retry loop advancing the sequence number only for a command that
\* requested an acknowledgement
send_command_written_ack_only(s, t, ok) ==
    IF ok
    THEN [s EXCEPT !.sequence_number =
                       IF s.call[t].strengths # None THEN NextSequence(@)
                       ELSE @,
                   !.call[t] = NoCall, !.pc[t] = "ret_true",
                   !.returned = <<TRUE>>, !.written = s.call[t]]
    ELSE IF s.att[t] < max_retries - 1
    THEN [s EXCEPT !.att[t] = @ + 1]
    ELSE [s EXCEPT !.att[t] = max_retries, !.call[t] = NoCall,
                   !.pc[t] = "ret_false", !.returned = <<FALSE>>]

\* one write_gatt_char of the retry loop returned (ok) or raised.  The task
\* is left at "ret_true", at "ret_false", or where it was for the next try.
send_command_written(s, t, ok) ==
    IF ok
    THEN [s EXCEPT !.sequence_number = NextSequence(@),
                   !.call[t] = NoCall, !.pc[t] = "ret_true",
                   !.returned = <<TRUE>>, !.written = s.call[t],
                   !.zero_on_link = @ \/ s.call[t].strengths = Some(<<0, 0>>)]
    ELSE IF s.att[t] < max_retries - 1
    THEN [s EXCEPT !.att[t] = @ + 1]
    ELSE [s EXCEPT !.att[t] = max_retries, !.call[t] = NoCall,
                   !.pc[t] = "ret_false", !.returned = <<FALSE>>]

\* the link of the current handle goes down: writes in flight on it fail
LinkDown(s) ==
    [s EXCEPT !.link_up = FALSE, !.subscribed = FALSE,
              !.stale = [t \in DOMAIN s.pc |-> s.call[t] # NoCall]]

\* ---- _disconnect_client ---------------------------------------------------
\* asyncio.wait_for(self.client.disconnect(), ...) is evaluated: with
\* self.client None the AttributeError is caught and the method goes on to
\* self.client = None ("dc_done"); otherwise the link disconnect is issued.
issue_disconnect(s, t) ==
    IF s.client = "none" THEN [s EXCEPT !.pc[t] = "dc_done"]
    ELSE [s EXCEPT !.pc[t] = "dc_disc"]

\* _disconnect_client without the self.running = False of line 805
disconnect_client_begin_keeps_running(s, t) ==
    IF s.client = "none" THEN [s EXCEPT !.pc[t] = "dc_done"]
    ELSE LET s1 == send_command_begin(s, t, None, Some(zero_pulses),
                                      "dc_write")
         IN  IF s1.pc[t] = "dc_write" THEN s1 ELSE issue_disconnect(s1, t)

\* _disconnect_client without its zero-pulse send
disconnect_client_begin_no_zero(s, t) ==
    IF s.client = "none" THEN [s EXCEPT !.pc[t] = "dc_done"]
    ELSE issue_disconnect([s EXCEPT !.running = FALSE], t)

\* _disconnect_client up to its first await: the task is left at "dc_write"
\* (zero pulses in flight), at "dc_disc" (link disconnect in flight) or at
\* "dc_done" (nothing awaited, self.client = None is next).
disconnect_client_begin(s, t) ==
    IF s.client = "none" THEN [s EXCEPT !.pc[t] = "dc_done"]
    ELSE LET s1 == send_command_begin([s EXCEPT !.running = FALSE], t,
                                      None, Some(zero_pulses), "dc_write")
         IN  IF s1.pc[t] = "dc_write" THEN s1 ELSE issue_disconnect(s1, t)

\* the last statement of _disconnect_client: self.client = None
disconnect_client_end(s, t) ==
    [s EXCEPT !.client = "none", !.att[t] = 0, !.stale[t] = FALSE]

\* ---- _connection_loop: the end of an iteration ---------------------------
\* "if prev_stage != self.connection_stage: emit; prev_stage = stage" and
\* then the await of asyncio.sleep(0.1)
end_iteration(s) ==
    [s EXCEPT !.prev_stage = s.connection_stage, !.pc["L"] = "top"]

\* "continue": the next iteration starts without an await
continue_loop(s) == [s EXCEPT !.pc["L"] = "top_now"]

\* ---- _recover_from_transient_failure -------------------------------------
\* the caller's code after the call returned
recover_return(s) ==
    IF s.ret \in {"rec_cont", "rec_missing"} THEN continue_loop(s)
    ELSE IF s.ret = "rec_outer" THEN [s EXCEPT !.pc["L"] = "top"]
    ELSE end_iteration(s)

\* after "await self._disconnect_client()"
recover_after_disconnect(s) ==
    LET extra_delay == IF s.ret = "rec_connect"
                       THEN s.connect_failure_streak ELSE 0
        s1 == SetStage([s EXCEPT !.scan_attempt_counter = 0], SCANNING)
    IN  IF s.is_win /\ extra_delay > 0
        THEN [s1 EXCEPT !.pc["L"] = "backoff"]
        ELSE recover_return([s1 EXCEPT !.next_scan_time = 1])

\* the active scan of the Windows backoff ended (ok) or raised
recover_backoff_done(s, ok) ==
    IF ok THEN recover_return(s)
    ELSE recover_return([s EXCEPT !.next_scan_time = 1])

\* ---- what follows _disconnect_client in each caller ----------------------
\* the force-disconnect branch handled like a transient failure
loop_after_disconnect_recover(s) ==
    LET s1 == disconnect_client_end(s, "L")
    IN  IF s.ret = "drop"
        THEN continue_loop(SetStage(
                 [s1 EXCEPT !.first_active_power_seen = FALSE],
                 DISCONNECTED))
        ELSE recover_after_disconnect(s1)

loop_after_disconnect(s) ==
    LET s1 == disconnect_client_end(s, "L")
    IN  IF s.ret = "force"
        THEN continue_loop(SetStage(
                 [s1 EXCEPT !.scan_attempt_counter = 0,
                            !.next_scan_time = 0,
                            !.first_active_power_seen = FALSE],
                 DISCONNECTED))
        ELSE IF s.ret = "drop"
        THEN continue_loop(SetStage(
                 [s1 EXCEPT !.first_active_power_seen = FALSE],
                 DISCONNECTED))
        ELSE recover_after_disconnect(s1)

\* disconnect(): after "await self._disconnect_client()"
disconnect_after_disconnect(s) ==
    SetStage([disconnect_client_end(s, "D") EXCEPT !.pc["D"] = "done"],
             DISCONNECTED)

\* run the caller's continuation when _disconnect_client has returned
resume(s, t) ==
    IF s.pc[t] # "dc_done" THEN s
    ELSE IF t = "L" THEN loop_after_disconnect(s)
    ELSE disconnect_after_disconnect(s)

\* "await self._disconnect_client()" in the connection loop, called for r
loop_disconnect(s, r) ==
    resume(disconnect_client_begin([s EXCEPT !.ret = r], "L"), "L")

\* an exception reaches the connection loop without its "except Exception"
loop_exception_uncaught(s) == [s EXCEPT !.pc["L"] = "raised"]

\* "except Exception" of the connection loop: the exception that left the
\* body of the iteration is logged and the link is recovered; the sleep of
\* 0.1 s follows without the emit of the stage
loop_exception(s) == loop_disconnect(s, "rec_outer")

\* the zero-pulse write of _disconnect_client returned (ok) or raised
disconnect_zero_written(s, t, ok) ==
    LET s1 == send_command_written(s, t, ok)
    IN  IF s1.pc[t] = "dc_write" THEN s1
        ELSE resume(issue_disconnect(s1, t), t)

\* client.disconnect() without the two except clauses: a failure leaves the
\* coroutine with the exception
disconnect_link_done_uncaught(s, t, o) ==
    IF o = "ok" THEN resume([LinkDown(s) EXCEPT !.pc[t] = "dc_done"], t)
    ELSE [s EXCEPT !.pc[t] = "raised"]

\* client.disconnect() returned (o = "ok"), raised or timed out; the two
\* except clauses swallow the failure
disconnect_link_done(s, t, o) ==
    resume([(IF o = "ok" THEN LinkDown(s) ELSE s) EXCEPT !.pc[t] = "dc_done"],
           t)

\* ---- _send_parameters ----------------------------------------------------
\* bytes([0xBF, a_limit, b_limit, a_freq_bal, b_freq_bal, a_int_bal, b_int_bal])
ParameterCommand(params) == <<191>> \o params

\* _send_parameters up to its first await: at wpc with the write in flight,
\* at "ret_false" when the client is gone, or at "raised" when bytes([...])
\* raises ValueError for a parameter that is not in range(256)
send_parameters_begin(s, wpc) ==
    IF ~is_connected(s) THEN [s EXCEPT !.pc["L"] = "ret_false"]
    ELSE IF ~fits_bytes(ParameterCommand(s.parameters))
    THEN [s EXCEPT !.pc["L"] = "raised"]
    ELSE [s EXCEPT !.call["L"] =
                       [NoCall EXCEPT
                           !.command = ParameterCommand(s.parameters)],
                   !.att["L"] = 0, !.stale["L"] = FALSE, !.pc["L"] = wpc]

\* one write of the retry loop of _send_parameters returned (ok) or raised
send_parameters_written(s, ok) ==
    IF ok THEN [s EXCEPT !.call["L"] = NoCall, !.att["L"] = 0,
                         !.pc["L"] = "ret_true", !.written = s.call["L"]]
    ELSE IF s.att["L"] < max_retries - 1 THEN [s EXCEPT !.att["L"] = @ + 1]
    ELSE [s EXCEPT !.call["L"] = NoCall, !.att["L"] = 0,
                   !.pc["L"] = "ret_false"]

\* ---- _scan_for_device ----------------------------------------------------
\* _create_client: a new handle, not connected
create_client(s) ==
    [s EXCEPT !.client = "handle", !.link_up = FALSE, !.subscribed = FALSE,
              !.zero_on_link = FALSE]

\* _remember_device_address without the reset of the failure counter
remember_device_address_keep_count(s, address) ==
    [s EXCEPT !.last_device_address = address,
              !.skip_cached_reconnect_scans = 0,
              !.persisted_address = address]

\* _remember_device_address
remember_device_address(s, address) ==
    [s EXCEPT !.last_device_address = address,
              !.cached_connect_failure_count = 0,
              !.skip_cached_reconnect_scans = 0,
              !.persisted_address = address]

\* _finish(found)
scan_finish(s, found) ==
    [s EXCEPT !.scan_failure_streak = IF found THEN 0 ELSE @ + 1]

\* the SCANNING branch staying in SCANNING after a scan that found the device
scanning_after_scan_stays(s, found) ==
    end_iteration([s EXCEPT !.next_scan_time = 1])

\* the SCANNING branch of the loop after "await self._scan_for_device()"
scanning_after_scan(s, found) ==
    IF found
    THEN end_iteration(SetStage(
             [s EXCEPT !.scan_attempt_counter = 0, !.next_scan_time = 0],
             CONNECTING))
    ELSE end_iteration([s EXCEPT !.scan_attempt_counter = @ + 1,
                                 !.next_scan_time = 1])

\* a direct bind to the cached address: no scan is awaited
scan_bind_cached(s) ==
    scan_finish([create_client(s) EXCEPT !.using_cached_address = TRUE],
                TRUE)

\* a scan step matched a device advertising at address
scan_matched(s, address) ==
    scan_finish(
        [create_client(remember_device_address(s, address))
            EXCEPT !.using_cached_address = FALSE],
        TRUE)

\* _scan_for_device up to its first await
scan_begin(s) ==
    LET has_address == s.last_device_address # "none"
        should_try == has_address /\ s.skip_cached_reconnect_scans <= 0
        defer == should_try /\ s.is_win /\ s.scan_failure_streak < 2
        s1 == IF ~should_try /\ has_address
                 /\ s.skip_cached_reconnect_scans > 0
              THEN [s EXCEPT !.skip_cached_reconnect_scans = @ - 1]
              ELSE s
    IN  IF should_try /\ ~defer
        THEN scanning_after_scan(scan_bind_cached(s1), TRUE)
        ELSE [s1 EXCEPT !.deferred = defer, !.pc["L"] = "scan_wait"]

\* the scans returned: o is the step that matched ("filter", "discover",
\* "name", "refresh") or "miss"; address is what the matching step saw
scan_done(s, o, address) ==
    LET s0 == [s EXCEPT !.deferred = FALSE]
    IN  IF o # "miss"
        THEN scanning_after_scan(scan_matched(s0, address), TRUE)
        ELSE IF s.deferred
        THEN scanning_after_scan(scan_bind_cached(s0), TRUE)
        ELSE scanning_after_scan(scan_finish(s0, FALSE), FALSE)

\* ---- _scan_for_device, one await at a time --------------------------------
\* the scan went on to step
scan_try(s, step) == [s EXCEPT !.scan_steps = Append(@, step)]

\* _scan_for_device returned found, from step, for the device at address
scan_result(s, found, step, address) ==
    [s EXCEPT !.scanned =
        <<[found |-> found, step |-> step, address |-> address]>>]

\* "self.client = self._create_client(<cached address>)" and
\* "return _finish(True)", as the first step or as the deferred one, and
\* the SCANNING branch after the scan
scan_bind(s, step) ==
    scanning_after_scan(
        scan_result(scan_bind_cached(scan_try(s, step)), TRUE, step,
                    s.last_device_address),
        TRUE)

\* a scan step returned a device at address
scan_step_matched(s, step, address) ==
    scanning_after_scan(
        scan_result(scan_matched([s EXCEPT !.deferred = FALSE], address),
                    TRUE, step, address),
        TRUE)

\* the end of _scan_for_device after the scans found nothing: the deferred
\* bind, or "return _finish(False)"
scan_tail(s) ==
    LET s0 == [s EXCEPT !.deferred = FALSE]
    IN  IF s.deferred THEN scan_bind(s0, "deferred")
        ELSE scanning_after_scan(
                 scan_result(scan_finish(s0, FALSE), FALSE, "none", "none"),
                 FALSE)

\* _scan_for_device binding the cached address first on every platform
scan_for_device_undeferred(s) ==
    LET has_address == s.last_device_address # "none"
        should_try == has_address /\ s.skip_cached_reconnect_scans <= 0
        s1 == [(IF ~should_try /\ has_address
                   /\ s.skip_cached_reconnect_scans > 0
                THEN [s EXCEPT !.skip_cached_reconnect_scans = @ - 1]
                ELSE s) EXCEPT !.scan_steps = <<>>]
    IN  IF should_try
        THEN scan_bind(s1, "cached")
        ELSE [scan_try(s1, "filter") EXCEPT !.deferred = FALSE,
                                            !.pc["L"] = "scan_filter"]

\* _scan_for_device up to its first await: the direct bind to the cached
\* address, or find_device_by_filter under way
scan_for_device(s) ==
    LET has_address == s.last_device_address # "none"
        should_try == has_address /\ s.skip_cached_reconnect_scans <= 0
        defer == should_try /\ s.is_win /\ s.scan_failure_streak < 2
        s1 == [(IF ~should_try /\ has_address
                   /\ s.skip_cached_reconnect_scans > 0
                THEN [s EXCEPT !.skip_cached_reconnect_scans = @ - 1]
                ELSE s) EXCEPT !.scan_steps = <<>>]
    IN  IF should_try /\ ~defer
        THEN scan_bind(s1, "cached")
        ELSE [scan_try(s1, "filter") EXCEPT !.deferred = defer,
                                            !.pc["L"] = "scan_filter"]

\* find_device_by_filter returned a device ("match"), returned None
\* ("none") or raised ("error"); BleakScanner.discover comes next
scan_filter_done(s, o, address) ==
    IF o = "match" THEN scan_step_matched(s, "filter", address)
    ELSE [scan_try(s, "discover") EXCEPT !.pc["L"] = "scan_discover"]

\* BleakScanner.discover returned with a target among the devices, without
\* one, or raised; find_device_by_name comes next
scan_discover_done(s, o, address) ==
    IF o = "match" THEN scan_step_matched(s, "discover", address)
    ELSE [scan_try(s, "name") EXCEPT !.pc["L"] = "scan_name"]

\* find_device_by_name returned; the active scan comes next on Windows after
\* two misses
scan_name_done(s, o, address) ==
    IF o = "match" THEN scan_step_matched(s, "name", address)
    ELSE IF s.is_win /\ s.scan_failure_streak >= 2
    THEN [scan_try(s, "refresh") EXCEPT !.pc["L"] = "scan_refresh"]
    ELSE scan_tail(s)

\* the active scan of 4 s ended
scan_refresh_done(s, o, address) ==
    IF o = "match" THEN scan_step_matched(s, "refresh", address)
    ELSE scan_tail(s)

\* ---- _connection_loop: the stage branches --------------------------------
Max(a, b) == IF a > b THEN a ELSE b

\* the failure handlers of CONNECTING without
\* "self._skip_cached_reconnect_scans = max(..., 2)"
connecting_failed_no_cooldown(s) ==
    LET s1 == [s EXCEPT !.connect_failure_streak = @ + 1,
                        !.cached_fail_run =
                            IF s.using_cached_address THEN @ + 1 ELSE 0]
        cached == s1.using_cached_address /\ s1.last_device_address # "none"
        s2 == IF ~cached THEN s1
              ELSE [s1 EXCEPT !.cached_connect_failure_count = @ + 1]
        s3 == IF ~cached THEN s2
              ELSE [(IF s2.cached_connect_failure_count
                          >= cached_connect_failure_limit
                     THEN remember_device_address(s2, "none") ELSE s2)
                    EXCEPT !.using_cached_address = FALSE]
        s4 == IF s3.is_win /\ s3.connect_failure_streak >= 2
              THEN [s3 EXCEPT !.scan_failure_streak = Max(@, 2)]
              ELSE s3
    IN  loop_disconnect(s4, "rec_connect")

\* the failure handlers of CONNECTING without
\* "self._connect_failure_streak += 1"
connecting_failed_no_streak(s) ==
    LET s1 == [s EXCEPT !.cached_fail_run =
                            IF s.using_cached_address THEN @ + 1 ELSE 0]
        cached == s1.using_cached_address /\ s1.last_device_address # "none"
        s2 == IF ~cached THEN s1
              ELSE [s1 EXCEPT !.cached_connect_failure_count = @ + 1,
                              !.skip_cached_reconnect_scans = Max(@, 2)]
        s3 == IF ~cached THEN s2
              ELSE [(IF s2.cached_connect_failure_count
                          >= cached_connect_failure_limit
                     THEN remember_device_address(s2, "none") ELSE s2)
                    EXCEPT !.using_cached_address = FALSE]
        s4 == IF s3.is_win /\ s3.connect_failure_streak >= 2
              THEN [s3 EXCEPT !.scan_failure_streak = Max(@, 2)]
              ELSE s3
    IN  loop_disconnect(s4, "rec_connect")

\* CONNECTING: "except asyncio.TimeoutError" and "except Exception" (the two
\* handlers differ in their log messages only)
connecting_failed(s) ==
    LET s1 == [s EXCEPT !.connect_failure_streak = @ + 1,
                        !.cached_fail_run =
                            IF s.using_cached_address THEN @ + 1 ELSE 0]
        cached == s1.using_cached_address /\ s1.last_device_address # "none"
        s2 == IF ~cached THEN s1
              ELSE [s1 EXCEPT !.cached_connect_failure_count = @ + 1,
                              !.skip_cached_reconnect_scans = Max(@, 2)]
        s3 == IF ~cached THEN s2
              ELSE [(IF s2.cached_connect_failure_count
                          >= cached_connect_failure_limit
                     THEN remember_device_address(s2, "none") ELSE s2)
                    EXCEPT !.using_cached_address = FALSE]
        s4 == IF s3.is_win /\ s3.connect_failure_streak >= 2
              THEN [s3 EXCEPT !.scan_failure_streak = Max(@, 2)]
              ELSE s3
    IN  loop_disconnect(s4, "rec_connect")

\* CONNECTING: client.connect() returned
connecting_connected(s) ==
    end_iteration(SetStage(
        [s EXCEPT !.link_up = TRUE, !.session_first_done = FALSE,
                  !.sessions = @ + 1, !.cached_fail_run = 0,
                  !.cached_connect_failure_count = 0,
                  !.connect_failure_streak = 0,
                  !.using_cached_address = FALSE],
        SERVICE_DISCOVERY))

\* SERVICE_DISCOVERY: the services were read and 0.5 s slept; o is
\* "services" (service_count > 0), "empty" or "error"
service_discovery_done(s, o) ==
    IF o # "services" THEN loop_disconnect(s, "rec_emit")
    ELSE LET s1 == send_command_begin(s, "L", Some(<<0, 0>>), None,
                                      "sd_write")
         IN  IF s1.pc["L"] = "sd_write" THEN s1
             ELSE loop_disconnect(s1, "rec_emit")

\* SERVICE_DISCOVERY going on to STATUS_SUBSCRIBE whatever
\* _send_initial_power_zero returned
initial_zero_written_unchecked(s, ok) ==
    LET s1 == send_command_written(s, "L", ok)
    IN  IF s1.pc["L"] = "sd_write" THEN s1
        ELSE end_iteration(SetStage([s1 EXCEPT !.att["L"] = 0],
                                    STATUS_SUBSCRIBE))

\* SERVICE_DISCOVERY: a write of _send_initial_power_zero returned or raised
initial_zero_written(s, ok) ==
    LET s1 == send_command_written(s, "L", ok)
    IN  IF s1.pc["L"] = "sd_write" THEN s1
        ELSE IF s1.pc["L"] = "ret_true"
        THEN end_iteration(SetStage([s1 EXCEPT !.att["L"] = 0],
                                    STATUS_SUBSCRIBE))
        ELSE loop_disconnect([s1 EXCEPT !.att["L"] = 0], "rec_emit")

\* STATUS_SUBSCRIBE: start_notify returned (ok) or raised
subscribe_done(s, ok) ==
    IF ok THEN end_iteration(SetStage([s EXCEPT !.subscribed = s.link_up],
                                      SYNC_PARAMETERS))
    ELSE loop_disconnect(s, "rec_emit")

\* SYNC_PARAMETERS: after _send_parameters returned True, up to the await
\* inside _read_battery_level
sync_parameters_sent(s) ==
    LET s1 == [s EXCEPT !.had_successful_connection = TRUE]
    IN  IF is_connected(s1) THEN [s1 EXCEPT !.pc["L"] = "sync_batt"]
        ELSE end_iteration(SetStage(s1, CONNECTED))

\* SYNC_PARAMETERS going on whatever _send_parameters returned
sync_parameters_written_unchecked(s, ok) ==
    LET s1 == send_parameters_written(s, ok)
    IN  IF s1.pc["L"] = "sync_write" THEN s1 ELSE sync_parameters_sent(s1)

\* SYNC_PARAMETERS: a write of _send_parameters returned or raised
sync_parameters_written(s, ok) ==
    LET s1 == send_parameters_written(s, ok)
    IN  IF s1.pc["L"] = "sync_write" THEN s1
        ELSE IF s1.pc["L"] = "ret_true" THEN sync_parameters_sent(s1)
        ELSE loop_disconnect(s1, "rec_emit")

\* SYNC_PARAMETERS: the battery read returned or raised
sync_battery_read(s) == end_iteration(SetStage(s, CONNECTED))

\* CONNECTED: the periodic resend and the sleep of 1 s
connected_resend(s, due) ==
    IF ~due THEN end_iteration(s)
    ELSE LET s1 == send_parameters_begin(s, "conn_write")
         IN  IF s1.pc["L"] = "conn_write" THEN s1
             ELSE IF s1.pc["L"] = "raised" THEN loop_exception(s1)
             ELSE end_iteration(s1)

\* CONNECTED: a write of the periodic _send_parameters returned or raised
connected_written(s, ok) ==
    LET s1 == send_parameters_written(s, ok)
    IN  IF s1.pc["L"] = "conn_write" THEN s1 ELSE end_iteration(s1)

\* "while self._shutdown"
loop_condition_inverted(s) == s.shutdown

\* the condition of "while not self._shutdown"
loop_condition(s) == ~s.shutdown

\* the branch an iteration takes: it leaves the loop ("exit"), tears down
\* on a reset ("force") or on a lost link ("drop"), or runs the branch of
\* the stage
iteration_branch(s) ==
    IF ~loop_condition(s) THEN "exit"
    ELSE IF s.force_disconnect THEN "force"
    ELSE IF s.connection_stage = CONNECTED /\ ~is_connected(s) THEN "drop"
    ELSE s.connection_stage

\* one iteration of "while not self._shutdown", up to its first await.
\* o is what the environment decides in that code: whether the scan
\* deadline has passed, whether the notify characteristic is there, and
\* which of the two timers of CONNECTED are due.
loop_iteration(s0, o) ==
    LET s == [s0 EXCEPT !.ret = "none", !.branch = iteration_branch(s0)]
    IN
    IF ~loop_condition(s) THEN [s EXCEPT !.pc["L"] = "halted"]
    ELSE IF s.force_disconnect
    THEN loop_disconnect([s EXCEPT !.force_disconnect = FALSE], "force")
    ELSE IF s.connection_stage = CONNECTED /\ ~is_connected(s)
    THEN loop_disconnect(s, "drop")
    ELSE IF s.connection_stage = DISCONNECTED
    THEN end_iteration(SetStage(s, SCANNING))
    ELSE IF s.connection_stage = SCANNING
    THEN IF s.next_scan_time = 1 /\ o = "wait"
         THEN [s EXCEPT !.pc["L"] = "top"]
         ELSE scan_begin(s)
    ELSE IF s.connection_stage = CONNECTING
    THEN IF s.client = "none" THEN loop_disconnect(s, "rec_missing")
         ELSE [s EXCEPT !.pc["L"] = "connect_wait"]
    ELSE IF s.connection_stage = SERVICE_DISCOVERY
    THEN IF ~is_connected(s) THEN loop_disconnect(s, "rec_cont")
         ELSE [s EXCEPT !.pc["L"] = "sd_wait"]
    ELSE IF s.connection_stage = STATUS_SUBSCRIBE
    THEN IF ~is_connected(s) THEN loop_disconnect(s, "rec_lost")
         ELSE IF o = "nochar" THEN loop_disconnect(s, "rec_emit")
         ELSE [s EXCEPT !.pc["L"] = "sub_wait"]
    ELSE IF s.connection_stage = SYNC_PARAMETERS
    THEN LET s1 == send_parameters_begin(s, "sync_write")
         IN  IF s1.pc["L"] = "sync_write" THEN s1
             ELSE IF s1.pc["L"] = "raised" THEN loop_exception(s1)
             ELSE loop_disconnect(s1, "rec_lost")
    ELSE IF o \in {"batt", "both"}
    THEN [s EXCEPT !.pc["L"] = IF o = "both" THEN "conn_batt_r"
                               ELSE "conn_batt"]
    ELSE connected_resend(s, o = "resend")

\* the decisions open to the environment in loop_iteration
IterationChoices(s) ==
    IF s.shutdown \/ s.force_disconnect THEN {"go"}
    ELSE IF s.connection_stage = SCANNING /\ s.next_scan_time = 1
    THEN {"wait", "go"}
    ELSE IF s.connection_stage = STATUS_SUBSCRIBE /\ is_connected(s)
    THEN {"go", "nochar"}
    ELSE IF s.connection_stage = CONNECTED /\ is_connected(s)
    THEN {"idle", "batt", "resend", "both"}
    ELSE {"go"}

\* an iteration of the loop in the SCANNING branch, up to its first await
scanning_iteration(s0, o) ==
    LET s == [s0 EXCEPT !.ret = "none", !.branch = iteration_branch(s0)]
    IN  IF s.next_scan_time = 1 /\ o = "wait"
        THEN [s EXCEPT !.pc["L"] = "top"]
        ELSE scan_for_device(s)

\* ---- the clock -------------------------------------------------------------
\* the CONNECTED branch runs in the iteration that starts in s
connected_branch(s) == "idle" \in IterationChoices(s)

\* which of the two timers of the CONNECTED branch are due at s.now
timer_choice(s) ==
    IF ~connected_branch(s) THEN "go"
    ELSE LET batt == s.now - s.last_battery_poll >= battery_poll_period
             resend == s.now - s.last_parameter_resend
                           >= parameter_resend_period
         IN  IF batt /\ resend THEN "both"
             ELSE IF batt THEN "batt"
             ELSE IF resend THEN "resend"
             ELSE "idle"

\* the CONNECTED branch that never records the time of the resend
set_timers_no_resend(s, o) ==
    [s EXCEPT !.last_battery_poll =
                  IF o \in {"batt", "both"} THEN s.now ELSE @]

\* "self._last_battery_poll = current_time" and
\* "self._last_parameter_resend = current_time", current_time being the time
\* at which the iteration started
set_timers(s, o) ==
    [s EXCEPT !.last_battery_poll =
                  IF o \in {"batt", "both"} THEN s.now ELSE @,
              !.last_parameter_resend =
                  IF o \in {"resend", "both"} THEN s.now ELSE @]

\* the sleep that ends an iteration: asyncio.sleep(1) of the CONNECTED
\* branch, then asyncio.sleep(0.1)
iteration_sleep(connected) ==
    IF connected THEN sleep_connected + sleep_iteration ELSE sleep_iteration

\* what a step of the connection loop from s0 to s1 means for the record of
\* the time spent CONNECTED: s1 is the state at s0.now, before any sleep
track(s0, s1) ==
    LET entering == s0.connection_stage # CONNECTED
                    /\ s1.connection_stage = CONNECTED
        resent == /\ s0.connection_stage = CONNECTED
                  /\ s1.written.command = ParameterCommand(s0.parameters)
                  /\ s0.now - s0.connected_at <= parameter_resend_period
    IN  [s1 EXCEPT !.connected_at = IF entering THEN s0.now ELSE @,
                   !.quiet = IF entering THEN ~s1.force_disconnect ELSE @,
                   !.resends = IF entering THEN 0
                               ELSE IF resent THEN @ + 1 ELSE @]

\* a step of the connection loop from s0 to s1 on the clock: when the step
\* ends the iteration, the loop sleeps for d ticks
clock(s0, s1, d) ==
    [track(s0, s1) EXCEPT !.now = IF s1.pc["L"] = "top" THEN @ + d ELSE @]

\* the iteration that starts at s.now, up to its first await or to its sleep
timed_iteration(s) ==
    LET o == timer_choice(s)
    IN  clock(s, loop_iteration(set_timers(s, o), o),
              iteration_sleep(connected_branch(s)))

\* services were found: asyncio.sleep(0.5), then the initial zero command
timed_service_discovery_done(s) ==
    LET s1 == service_discovery_done(s, "services")
    IN  [clock(s, s1, sleep_iteration)
            EXCEPT !.now = IF s1.pc["L"] = "sd_write"
                           THEN @ + sleep_services ELSE @]

\* _handle_status_notification with the ActivePower branch storing and
\* emitting the strengths it logs
handle_status_notification_active_stores(s, data) ==
    IF Len(data) = 0 THEN s
    ELSE IF Len(data) < 4 THEN [s EXCEPT !.exception = "IndexError"]
    ELSE IF data[1] = CMD_POWER_UPDATE
    THEN [s EXCEPT !.strengths = <<data[3], data[4]>>,
                   !.power_levels_changed = <<<<data[3], data[4]>>>>]
    ELSE IF data[1] = CMD_ACK THEN s
    ELSE IF data[1] = CMD_ACTIVE_POWER
    THEN LET power == IF ~s.first_active_power_seen THEN <<0, 0>>
                      ELSE <<data[3], data[4]>>
         IN  [s EXCEPT
                !.reported = power,
                !.strengths = power,
                !.power_levels_changed = <<power>>,
                !.first_active_power_seen = TRUE,
                !.session_first_done = TRUE]
    ELSE s

\* ---- _handle_status_notification -----------------------------------------
\* The handler has no await: it runs in one piece.  An empty payload is
\* logged and dropped.  data[1], data[2] and data[3] are read before the
\* command id is looked at, so a payload of 1 to 3 bytes raises IndexError
\* there; the len(data) < 4 test of the ActivePower branch comes after it.
handle_status_notification(s, data) ==
    IF Len(data) = 0 THEN s
    ELSE IF Len(data) < 4 THEN [s EXCEPT !.exception = "IndexError"]
    ELSE IF data[1] = CMD_POWER_UPDATE
    THEN [s EXCEPT !.strengths = <<data[3], data[4]>>,
                   !.power_levels_changed = <<<<data[3], data[4]>>>>]
    ELSE IF data[1] = CMD_ACK THEN s
    ELSE IF data[1] = CMD_ACTIVE_POWER
    THEN [s EXCEPT
            !.reported = IF ~s.first_active_power_seen THEN <<0, 0>>
                         ELSE <<data[3], data[4]>>,
            !.first_active_power_seen = TRUE,
            !.session_first_done = TRUE]
    ELSE s

\* ---- disconnect() and reset_connection() ---------------------------------
\* disconnect() up to its first await
disconnect_begin(s) ==
    resume(disconnect_client_begin([s EXCEPT !.shutdown = TRUE], "D"), "D")

reset_connection(s) ==
    [s EXCEPT !.scan_attempt_counter = 0, !.next_scan_time = 0,
              !.force_disconnect = TRUE]

\* reset_connection() as an event of the time spent CONNECTED
timed_reset_connection(s) == [reset_connection(s) EXCEPT !.quiet = FALSE]

\* ---- a send_command call scheduled on the event loop --------------------
\* (update_channel_strength schedules send_command(strengths); the update
\* loop awaits send_command(pulses=...))
caller_send_begin(s, str, pul) ==
    LET s1 == send_command_begin(s, "C", str, pul, "c_write")
    IN  IF s1.pc["C"] = "c_write" THEN s1 ELSE [s1 EXCEPT !.pc["C"] = "idle"]

caller_send_written(s, ok) ==
    LET s1 == send_command_written(s, "C", ok)
    IN  IF s1.pc["C"] = "c_write" THEN s1
        ELSE [s1 EXCEPT !.pc["C"] = "idle", !.att["C"] = 0]

\* ---- start_updates, stop_updates and update_loop --------------------------
\* start_updates() and stop_updates() are plain methods called on the UI
\* thread; update_loop() is a coroutine on the event loop (task "U").  The
\* two threads share self.running and self.algorithm without a lock, so a
\* call of stop_updates() can fall between any two reads the loop makes of
\* them: the loop is modelled read by read.
\* positions of the update loop between two awaits (it holds the event loop)
UpdateRunning == {"u_top", "u_alg", "u_due", "u_load", "u_call"}

\* the packet algorithm.generate_packet returns
GeneratedPacket ==
    [channel_a |-> [i \in 1..PULSES_PER_PACKET |->
                      [duration |-> 10, intensity |-> 50]],
     channel_b |-> [i \in 1..PULSES_PER_PACKET |->
                      [duration |-> 20, intensity |-> 100]]]

\* self.algorithm = algorithm; self.running = True; the coroutine is
\* scheduled and starts when the event loop resumes it
start_updates(s) ==
    [s EXCEPT !.algorithm = "alg", !.running = TRUE, !.pc["U"] = "u_sleep"]

\* self.running = False; self.algorithm = None
stop_updates(s) == [s EXCEPT !.running = FALSE, !.algorithm = "none"]

\* the event loop resumes the coroutine (scheduled, or its sleep is over)
update_wake(s) == [s EXCEPT !.pc["U"] = "u_top"]

\* while self.running:
update_top(s) ==
    IF s.running THEN [s EXCEPT !.pc["U"] = "u_alg"]
    ELSE [s EXCEPT !.pc["U"] = "u_exit"]

\* "if not self.algorithm: sleep(0.1); continue", then the battery read
\* when it is due: _read_battery_level awaits read_gatt_char on a connected
\* client and returns at once otherwise
update_algorithm(s, battery_due) ==
    IF s.algorithm = "none" THEN [s EXCEPT !.pc["U"] = "u_sleep"]
    ELSE IF battery_due /\ is_connected(s) THEN [s EXCEPT !.pc["U"] = "u_batt"]
    ELSE [s EXCEPT !.pc["U"] = "u_due"]

\* read_gatt_char returned or raised (caught in _read_battery_level)
update_battery_read(s) == [s EXCEPT !.pc["U"] = "u_due"]

\* "if current_time >= self.algorithm.next_update_time": with
\* self.algorithm None the AttributeError is caught by the inner except,
\* which sleeps 0.1 s
update_due(s, due) ==
    IF s.algorithm = "none" THEN [s EXCEPT !.pc["U"] = "u_sleep"]
    ELSE IF due THEN [s EXCEPT !.pc["U"] = "u_load"]
    ELSE [s EXCEPT !.pc["U"] = "u_sleep"]

\* self.algorithm.generate_packet: the attribute self.algorithm is read
\* (None: AttributeError, caught), the call follows
update_load(s) ==
    IF s.algorithm = "none" THEN [s EXCEPT !.pc["U"] = "u_sleep"]
    ELSE [s EXCEPT !.pc["U"] = "u_call"]

\* generate_packet(current_time) runs on the object that was read, and
\* "if pulses is not None: await self.send_command(pulses=pulses)" up to the
\* first await of send_command.  A ValueError of send_command is caught by
\* the inner except.  The packet is marked when it is generated after
\* stop_updates() has returned.
update_generate(s, packet) ==
    IF packet = None THEN [s EXCEPT !.pc["U"] = "u_sleep"]
    ELSE LET s1 == send_command_begin(
                       [s EXCEPT !.forwarded = <<s.algorithm = "none">>],
                       "U", None, packet, "u_write")
         IN  IF s1.pc["U"] = "u_write" THEN s1
             ELSE [s1 EXCEPT !.pc["U"] = "u_sleep", !.exception = "none"]

\* a write of that send_command returned or raised; after the call the
\* loop sleeps
update_written(s, ok) ==
    LET s1 == send_command_written(s, "U", ok)
    IN  IF s1.pc["U"] = "u_write" THEN s1
        ELSE [s1 EXCEPT !.pc["U"] = "u_sleep", !.att["U"] = 0]

\* ---- PulseGenerator.create_pulse ------------------------------------------
\* (src/device/coyote/pulse_generator.py).  The floats of the code are
\* modelled by exact fractions <<numerator, denominator>>, denominator > 0.
\* the hardware envelope: "Clamp to hardware limits (5-240ms = 4.17-200 Hz)"
MIN_PULSE_DURATION_MS == 5
MAX_PULSE_DURATION_MS == 240

Less(x, y) == x[1] * y[2] < y[1] * x[2]
Larger(x, y) == IF Less(x, y) THEN y ELSE x     \* max(x, y)
Smaller(x, y) == IF Less(y, x) THEN y ELSE x    \* min(x, y)

\* device.coyote.common.clamp
clamp(value, low, high) == Larger(low, Smaller(value, high))

\* int(x): truncation, of a fraction that is not negative
int(x) == x[1] \div x[2]

\* round(x): to the nearest integer, a tie to the even one
round(x) ==
    LET q == x[1] \div x[2]
        r == x[1] % x[2]
    IN  IF 2 * r < x[2] THEN q
        ELSE IF 2 * r > x[2] THEN q + 1
        ELSE IF q % 2 = 0 THEN q ELSE q + 1

\* 1000.0 / x
per_mille(x) == <<1000 * x[2], x[1]>>

\* the frequency shown, computed from the duration already truncated
display_frequency_of_truncated(base_duration) ==
    Max(1, round(per_mille(<<int(base_duration), 1>>)))

\* display_frequency = int(max(1, round(1000.0 / base_duration)))
display_frequency(base_duration) == Max(1, round(per_mille(base_duration)))

\* requested_frequency: funscript values 0-100 are mapped onto the user
\* window, a frequency in Hz is clamped to it
requested_frequency(raw_value, using_funscript, user_freq_min, user_freq_max) ==
    IF using_funscript
    THEN <<100 * user_freq_min + raw_value * (user_freq_max - user_freq_min),
           100>>
    ELSE clamp(<<raw_value, 1>>, <<user_freq_min, 1>>, <<user_freq_max, 1>>)

\* base_duration: 1000.0 / max(1, requested_frequency), clamped to the
\* hardware envelope
base_duration(requested) ==
    clamp(per_mille(Larger(<<1, 1>>, requested)),
          <<MIN_PULSE_DURATION_MS, 1>>, <<MAX_PULSE_DURATION_MS, 1>>)

\* CoyotePulse(duration=int(base_duration), intensity=final_intensity,
\*             frequency=display_frequency)
\* create_pulse returning the intensity it was asked for
create_pulse_raw_intensity(raw_value, using_funscript, freq_min, freq_max, intensity) ==
    LET base == base_duration(requested_frequency(
                    raw_value, using_funscript, freq_min, freq_max))
    IN  [duration |-> int(base),
         intensity |-> intensity,
         frequency |-> display_frequency(base)]

create_pulse(raw_value, using_funscript, freq_min, freq_max, intensity) ==
    LET base == base_duration(requested_frequency(
                    raw_value, using_funscript, freq_min, freq_max))
    IN  [duration |-> int(base),
         intensity |-> int(clamp(<<intensity, 1>>, <<0, 1>>, <<100, 1>>)),
         frequency |-> display_frequency(base)]

\* ---- the state machine ---------------------------------------------------
\* the state after __init__, the clock apart
InitState ==
    /\ connection_stage = DISCONNECTED
    /\ client = "none"
    /\ link_up = FALSE
    /\ subscribed = FALSE
    /\ running = FALSE
    /\ algorithm = "none"
    /\ shutdown = FALSE
    /\ force_disconnect = FALSE
    /\ sequence_number = InitialSequenceNumber
    /\ first_active_power_seen = FALSE
    /\ had_successful_connection = FALSE
    /\ strengths = <<0, 0>>
    /\ parameters \in ParameterChoices
    /\ last_device_address \in {"none", "A"}
    /\ persisted_address = last_device_address
    /\ using_cached_address = FALSE
    /\ cached_connect_failure_count = 0
    /\ skip_cached_reconnect_scans = 0
    /\ next_scan_time = 0
    /\ scan_attempt_counter = 0
    /\ scan_failure_streak = 0
    /\ connect_failure_streak = 0
    /\ is_win \in BOOLEAN
    /\ pc = [t \in Tasks |-> IF t = "L" THEN "top_now" ELSE "idle"]
    /\ ret = "none"
    /\ att = [t \in Tasks |-> 0]
    /\ stale = [t \in Tasks |-> FALSE]
    /\ call = [t \in Tasks |-> NoCall]
    /\ deferred = FALSE
    /\ prev_stage = DISCONNECTED
    /\ trail = <<>>
    /\ sessions = 0
    /\ session_first_done = FALSE
    /\ reported = <<>>
    /\ returned = <<>>
    /\ written = NoCall
    /\ called = <<>>
    /\ settled = FALSE
    /\ last_ack = <<>>
    /\ power_levels_changed = <<>>
    /\ scanned = <<>>
    /\ scan_steps = <<>>
    /\ zero_on_link = FALSE
    /\ branch = "none"
    /\ pulse = <<>>
    /\ forwarded = <<>>
    /\ delivered = <<>>
    /\ exception = "none"
    /\ cached_fail_run = 0
    /\ last_battery_poll = 0
    /\ last_parameter_resend = 0
    /\ connected_at = 0
    /\ resends = 0
    /\ quiet = FALSE

\* Spec, SpecSend and SpecFair leave the clock alone: there the timers of
\* the CONNECTED branch are due whenever the environment says so
Init == InitState /\ now = 0

\* the event loop runs another coroutine only while the connection loop is
\* suspended in an await
EventLoopFree ==
    pc["L"] # "top_now" /\ \A t \in {"U", "V"} : pc[t] \notin UpdateRunning

\* a write in flight can succeed only on a link that stayed up
CanSucceed(t) == link_up /\ ~stale[t]

\* Each action takes the outcomes the environment may choose from, so that
\* a specification can assume a reliable link.
Outcomes == BOOLEAN
Reliable == {TRUE}

LoopIteration(choices) ==
    /\ pc["L"] \in {"top", "top_now"}
    /\ \E o \in IterationChoices(Cur) \cap choices :
         Commit(loop_iteration(Cur, o))

ScanDone(steps, addresses) ==
    /\ pc["L"] = "scan_wait"
    /\ \E o \in steps, a \in addresses :
         /\ o = "refresh" => is_win /\ scan_failure_streak >= 2
         /\ o = "miss" => /\ a = "A"
                          /\ deferred \/ scan_failure_streak < MaxStreak
         /\ Commit(scan_done(Cur, o, a))

ConnectOk ==
    /\ pc["L"] = "connect_wait"
    /\ sessions < MaxSessions
    /\ Commit(connecting_connected(Cur))

\* (the streak is capped while the loop may go on; after disconnect() the
\* iteration under way is the last one)
ConnectFail ==
    /\ pc["L"] = "connect_wait"
    /\ connect_failure_streak < MaxStreak \/ shutdown
    /\ Commit(connecting_failed(Cur))

ServiceDiscoveryDone(results) ==
    /\ pc["L"] = "sd_wait"
    /\ \E o \in results :
         /\ o = "services" => link_up
         /\ Commit(service_discovery_done(Cur, o))

InitialZeroWritten(oks) ==
    /\ pc["L"] = "sd_write"
    /\ \E ok \in oks :
         /\ ok => CanSucceed("L")
         /\ Commit(initial_zero_written(Cur, ok))

SubscribeDone(oks) ==
    /\ pc["L"] = "sub_wait"
    /\ \E ok \in oks :
         /\ ok => link_up
         /\ Commit(subscribe_done(Cur, ok))

SyncParametersWritten(oks) ==
    /\ pc["L"] = "sync_write"
    /\ \E ok \in oks :
         /\ ok => CanSucceed("L")
         /\ Commit(sync_parameters_written(Cur, ok))

SyncBatteryRead ==
    /\ pc["L"] = "sync_batt"
    /\ Commit(sync_battery_read(Cur))

ConnectedBatteryRead ==
    /\ pc["L"] \in {"conn_batt", "conn_batt_r"}
    /\ Commit(connected_resend(Cur, pc["L"] = "conn_batt_r"))

ConnectedWritten(oks) ==
    /\ pc["L"] = "conn_write"
    /\ \E ok \in oks :
         /\ ok => CanSucceed("L")
         /\ Commit(connected_written(Cur, ok))

BackoffDone ==
    /\ pc["L"] = "backoff"
    /\ \E ok \in BOOLEAN : Commit(recover_backoff_done(Cur, ok))

ZeroWritten(t) ==
    /\ pc[t] = "dc_write"
    /\ t = "D" => EventLoopFree
    /\ \E ok \in BOOLEAN :
         /\ ok => CanSucceed(t)
         /\ Commit(disconnect_zero_written(Cur, t, ok))

LinkDisconnectDone(t) ==
    /\ pc[t] = "dc_disc"
    /\ t = "D" => EventLoopFree
    /\ \E o \in {"ok", "raised", "timeout"} :
         Commit(disconnect_link_done(Cur, t, o))

Disconnect ==
    /\ pc["D"] = "idle"
    /\ EventLoopFree
    /\ Commit(disconnect_begin(Cur))

ResetConnection ==
    /\ ~force_disconnect
    /\ Commit(reset_connection(Cur))

LinkDrop ==
    /\ link_up
    /\ Commit(LinkDown(Cur))

Notification ==
    /\ client = "handle" /\ link_up /\ subscribed
    /\ EventLoopFree
    /\ \E data \in NotificationData :
         Commit(handle_status_notification(Cur, data))

\* the BLE stack calls the status handler with any payload; the payload is
\* kept for the step
StatusNotification ==
    /\ client = "handle" /\ link_up /\ subscribed
    /\ EventLoopFree
    /\ \E data \in StatusPayloads :
         Commit([handle_status_notification(Cur, data)
                    EXCEPT !.delivered = <<data>>])

CallerSend ==
    /\ pc["C"] = "idle"
    /\ EventLoopFree
    /\ \E str \in StrengthChoices, pul \in PulseChoices :
         Commit(caller_send_begin(Cur, str, pul))

CallerWritten ==
    /\ pc["C"] = "c_write"
    /\ EventLoopFree
    /\ \E ok \in BOOLEAN :
         /\ ok => CanSucceed("C")
         /\ Commit(caller_send_written(Cur, ok))

\* the connection lifecycle on an unreliable link, with reset_connection()
\* and disconnect() arriving at any time
Next ==
    \/ LoopIteration({"go", "wait", "nochar", "idle", "batt", "resend", "both"})
    \/ ScanDone({"filter", "discover", "name", "refresh", "miss"}, {"A"})
    \/ ConnectOk
    \/ ConnectFail
    \/ ServiceDiscoveryDone({"services", "empty", "error"})
    \/ InitialZeroWritten(Outcomes)
    \/ SubscribeDone(Outcomes)
    \/ SyncParametersWritten(Outcomes)
    \/ SyncBatteryRead
    \/ ConnectedBatteryRead
    \/ ConnectedWritten(Outcomes)
    \/ BackoffDone
    \/ \E t \in {"L", "D"} : ZeroWritten(t)
    \/ \E t \in {"L", "D"} : LinkDisconnectDone(t)
    \/ Disconnect
    \/ ResetConnection
    \/ LinkDrop
    \/ Notification

Spec == Init /\ [][Next]_vars

\* a step of the connection loop: the start of an iteration, or the return
\* of the operation it awaits
LoopStep ==
    \/ LoopIteration({"go", "wait", "nochar", "idle", "batt", "resend", "both"})
    \/ ScanDone({"filter", "discover", "name", "refresh", "miss"}, {"A"})
    \/ ConnectOk
    \/ ConnectFail
    \/ ServiceDiscoveryDone({"services", "empty", "error"})
    \/ InitialZeroWritten(Outcomes)
    \/ SubscribeDone(Outcomes)
    \/ SyncParametersWritten(Outcomes)
    \/ SyncBatteryRead
    \/ ConnectedBatteryRead
    \/ ConnectedWritten(Outcomes)
    \/ BackoffDone
    \/ ZeroWritten("L")
    \/ LinkDisconnectDone("L")

\* the connection loop with every operation it awaits free to fail, and
\* disconnect() arriving at any time
NextFair ==
    \/ LoopStep
    \/ Disconnect
    \/ ZeroWritten("D")
    \/ LinkDisconnectDone("D")

\* the event loop schedules the connection loop fairly and every operation
\* the loop awaits returns (or raises, or times out)
SpecFair == Init /\ [][NextFair]_vars /\ WF_vars(LoopStep)

\* ---- the connection loop on a clock ---------------------------------------
\* Awaited operations take no time and succeed; time passes in the sleeps.
TimedIteration ==
    /\ pc["L"] \in {"top", "top_now"}
    /\ now < MaxTime
    /\ Commit(timed_iteration(Cur))

TimedScanDone ==
    /\ pc["L"] = "scan_wait"
    /\ Commit(clock(Cur, scan_done(Cur, "filter", "A"), sleep_iteration))

TimedConnectOk ==
    /\ pc["L"] = "connect_wait"
    /\ sessions < MaxSessions
    /\ Commit(clock(Cur, connecting_connected(Cur), sleep_iteration))

TimedServiceDiscoveryDone ==
    /\ pc["L"] = "sd_wait"
    /\ link_up
    /\ Commit(timed_service_discovery_done(Cur))

TimedInitialZeroWritten ==
    /\ pc["L"] = "sd_write"
    /\ CanSucceed("L")
    /\ Commit(clock(Cur, initial_zero_written(Cur, TRUE), sleep_iteration))

TimedSubscribeDone ==
    /\ pc["L"] = "sub_wait"
    /\ link_up
    /\ Commit(clock(Cur, subscribe_done(Cur, TRUE), sleep_iteration))

TimedSyncParametersWritten ==
    /\ pc["L"] = "sync_write"
    /\ CanSucceed("L")
    /\ Commit(clock(Cur, sync_parameters_written(Cur, TRUE), sleep_iteration))

TimedSyncBatteryRead ==
    /\ pc["L"] = "sync_batt"
    /\ Commit(clock(Cur, sync_battery_read(Cur), sleep_iteration))

TimedConnectedBatteryRead ==
    /\ pc["L"] \in {"conn_batt", "conn_batt_r"}
    /\ Commit(clock(Cur, connected_resend(Cur, pc["L"] = "conn_batt_r"),
                    iteration_sleep(TRUE)))

TimedConnectedWritten ==
    /\ pc["L"] = "conn_write"
    /\ CanSucceed("L")
    /\ Commit(clock(Cur, connected_written(Cur, TRUE), iteration_sleep(TRUE)))

TimedZeroWritten ==
    /\ pc["L"] = "dc_write"
    /\ CanSucceed("L")
    /\ Commit(clock(Cur, disconnect_zero_written(Cur, "L", TRUE),
                    sleep_iteration))

TimedLinkDisconnectDone ==
    /\ pc["L"] = "dc_disc"
    /\ Commit(clock(Cur, disconnect_link_done(Cur, "L", "ok"),
                    sleep_iteration))

\* (the reset is requested while CONNECTED, at any time, and while the
\* peripheral accepts another link)
TimedResetConnection ==
    /\ ~force_disconnect
    /\ connection_stage = CONNECTED
    /\ sessions < MaxSessions
    /\ Commit(timed_reset_connection(Cur))

\* the clock starts at 0 (a simulated clock), at each phase of the period
\* of the CONNECTED branch after that, or where both timers are due at once
\* (time.time() of a wall clock)
ClockOrigins ==
    0..(sleep_connected + sleep_iteration) \cup {battery_poll_period}

\* the parameters fit their bytes, so that the frame can be written
InitTimer ==
    /\ InitState
    /\ now \in ClockOrigins
    /\ fits_bytes(ParameterCommand(parameters))

\* one link after the other is brought up and kept, on a reliable link and
\* on the clock, with reset_connection() arriving while CONNECTED
NextTimer ==
    \/ TimedIteration
    \/ TimedScanDone
    \/ TimedConnectOk
    \/ TimedServiceDiscoveryDone
    \/ TimedInitialZeroWritten
    \/ TimedSubscribeDone
    \/ TimedSyncParametersWritten
    \/ TimedSyncBatteryRead
    \/ TimedConnectedBatteryRead
    \/ TimedConnectedWritten
    \/ TimedZeroWritten
    \/ TimedLinkDisconnectDone
    \/ TimedResetConnection

SpecTimer == InitTimer /\ [][NextTimer]_vars

\* send_command calls arriving at any time while the connection loop brings
\* up one link that stays up; the callers' writes may fail
NextSend ==
    \/ LoopIteration({"go", "idle", "batt", "resend", "both"})
    \/ ScanDone({"filter"}, {"A"})
    \/ ConnectOk
    \/ ServiceDiscoveryDone({"services"})
    \/ InitialZeroWritten(Reliable)
    \/ SubscribeDone(Reliable)
    \/ SyncParametersWritten(Reliable)
    \/ SyncBatteryRead
    \/ ConnectedBatteryRead
    \/ ConnectedWritten(Reliable)
    \/ CallerSend
    \/ CallerWritten

SpecSend == Init /\ [][NextSend]_vars

\* status notifications of any content and send_command calls arriving at
\* any time, before the link is up (the calls) and while it is up
NextNotify ==
    \/ LoopIteration({"go", "idle", "batt", "resend", "both"})
    \/ ScanDone({"filter"}, {"A"})
    \/ ConnectOk
    \/ ServiceDiscoveryDone({"services"})
    \/ InitialZeroWritten(Reliable)
    \/ SubscribeDone(Reliable)
    \/ SyncParametersWritten(Reliable)
    \/ SyncBatteryRead
    \/ ConnectedBatteryRead
    \/ ConnectedWritten(Reliable)
    \/ StatusNotification
    \/ CallerSend
    \/ CallerWritten

SpecNotify == Init /\ [][NextNotify]_vars

\* ---- the pulse generator ---------------------------------------------------
\* user windows [minimum_frequency, maximum_frequency], in Hz
\* (among them a zero, a negative and an inverted one)
FrequencyWindows ==
    {<<4, 250>>, <<10, 100>>, <<1, 300>>,
     <<0, 0>>, <<0 - 5, 0 - 1>>, <<100, 10>>}
\* control values: frequencies in Hz or funscript positions, and values
\* below the range of either
RawValues == (0..MaxRawHz) \cup {0 - 1, 0 - 50}
IntensityChoices == {0 - 1, 50, 101}

\* one call of create_pulse: a funscript value (0-100) or a frequency in Hz.
\* create_pulse reads and writes no state of the generator, so that one
\* call from the initial state stands for every call.
CreatePulse ==
    /\ pulse = <<>>
    /\ \E raw_value \in RawValues, using_funscript \in BOOLEAN,
          w \in FrequencyWindows, intensity \in IntensityChoices :
         /\ Commit([Cur EXCEPT !.pulse =
                      <<[raw_value |-> raw_value,
                         using_funscript |-> using_funscript,
                         user_freq_min |-> w[1], user_freq_max |-> w[2],
                         intensity |-> intensity,
                         result |-> create_pulse(raw_value, using_funscript,
                                                 w[1], w[2], intensity)]>>])

NextPulse == CreatePulse

\* the device as constructed; the generator is called with any arguments
InitPulse ==
    /\ Init
    /\ ~is_win
    /\ last_device_address = "none"
    /\ fits_bytes(ParameterCommand(parameters))

SpecPulse == InitPulse /\ [][NextPulse]_vars

\* ---- the update loop and the facade calls --------------------------------
StartUpdates ==
    /\ pc["U"] \in {"idle", "u_exit"}
    /\ Commit(start_updates(Cur))

StopUpdates ==
    /\ algorithm = "alg"
    /\ Commit(stop_updates(Cur))

UpdateWake ==
    /\ pc["U"] = "u_sleep"
    /\ EventLoopFree
    /\ Commit(update_wake(Cur))

UpdateTop ==
    /\ pc["U"] = "u_top"
    /\ Commit(update_top(Cur))

UpdateAlgorithm ==
    /\ pc["U"] = "u_alg"
    /\ \E battery_due \in BOOLEAN : Commit(update_algorithm(Cur, battery_due))

UpdateBatteryRead ==
    /\ pc["U"] = "u_batt"
    /\ EventLoopFree
    /\ Commit(update_battery_read(Cur))

UpdateDue ==
    /\ pc["U"] = "u_due"
    /\ \E due \in BOOLEAN : Commit(update_due(Cur, due))

UpdateLoad ==
    /\ pc["U"] = "u_load"
    /\ Commit(update_load(Cur))

UpdateGenerate ==
    /\ pc["U"] = "u_call"
    /\ \E packet \in {None, Some(GeneratedPacket)} :
         Commit(update_generate(Cur, packet))

UpdateWritten ==
    /\ pc["U"] = "u_write"
    /\ EventLoopFree
    /\ \E ok \in BOOLEAN :
         /\ ok => CanSucceed("U")
         /\ Commit(update_written(Cur, ok))

\* a step of the update loop
UpdateStep ==
    \/ UpdateWake
    \/ UpdateTop
    \/ UpdateAlgorithm
    \/ UpdateBatteryRead
    \/ UpdateDue
    \/ UpdateLoad
    \/ UpdateGenerate
    \/ UpdateWritten

\* a step of the connection loop on a link that does not fail; the loop
\* runs only while the update loop is suspended in an await
ReliableLoopStep ==
    /\ pc["U"] \notin UpdateRunning
    /\ \/ LoopIteration({"go", "idle", "batt", "resend", "both"})
       \/ ScanDone({"filter"}, {"A"})
       \/ ConnectOk
       \/ ServiceDiscoveryDone({"services"})
       \/ InitialZeroWritten(Reliable)
       \/ SubscribeDone(Reliable)
       \/ SyncParametersWritten(Reliable)
       \/ SyncBatteryRead
       \/ ConnectedBatteryRead
       \/ ConnectedWritten(Reliable)
       \/ ZeroWritten("L")
       \/ LinkDisconnectDone("L")

\* the connection loop, the update loop and the facade calls start_updates,
\* stop_updates and disconnect (stop() is stop_updates followed by
\* disconnect) in every interleaving
NextUpdate ==
    \/ ReliableLoopStep
    \/ UpdateStep
    \/ StartUpdates
    \/ StopUpdates
    \/ Disconnect
    \/ ZeroWritten("D")
    \/ LinkDisconnectDone("D")

\* the parameters fit their bytes, so that the link comes up
InitUpdate == Init /\ fits_bytes(ParameterCommand(parameters))

\* the event loop resumes each coroutine whose awaited operation is over
SpecUpdate ==
    InitUpdate /\ [][NextUpdate]_vars /\ WF_vars(ReliableLoopStep)
         /\ WF_vars(UpdateStep)

\* the device as constructed, with nothing cached and parameters that fit
InitSeq ==
    /\ Init
    /\ ~is_win
    /\ last_device_address = "none"
    /\ fits_bytes(ParameterCommand(parameters))

\* ---- start_updates called again (specification SpecLoops) -----------------
\* Every start_updates() schedules a new update_loop coroutine; task "V" is
\* the coroutine of a call made while the one of task "U" has not exited.
\* s with the places of the two coroutines exchanged
swap(s) ==
    LET x(f) == [f EXCEPT !["U"] = f["V"], !["V"] = f["U"]]
    IN  [s EXCEPT !.pc = x(@), !.att = x(@), !.stale = x(@), !.call = x(@)]

\* what Op does as the second coroutine
Second(Op(_), s) == swap(Op(swap(s)))

\* start_updates() while the coroutine of an earlier call is alive
StartUpdatesAgain ==
    /\ pc["U"] \notin {"idle", "u_exit"}
    /\ pc["V"] \in {"idle", "u_exit"}
    /\ Commit(Second(start_updates, Cur))

\* a step of the second coroutine
SecondUpdateStep ==
    \/ /\ pc["V"] = "u_sleep"
       /\ EventLoopFree
       /\ Commit(Second(update_wake, Cur))
    \/ /\ pc["V"] = "u_top"
       /\ Commit(Second(update_top, Cur))
    \/ /\ pc["V"] = "u_alg"
       /\ \E battery_due \in BOOLEAN :
            Commit(Second(LAMBDA s : update_algorithm(s, battery_due), Cur))
    \/ /\ pc["V"] = "u_batt"
       /\ EventLoopFree
       /\ Commit(Second(update_battery_read, Cur))
    \/ /\ pc["V"] = "u_due"
       /\ \E due \in BOOLEAN :
            Commit(Second(LAMBDA s : update_due(s, due), Cur))
    \/ /\ pc["V"] = "u_load"
       /\ Commit(Second(update_load, Cur))
    \/ /\ pc["V"] = "u_call"
       /\ \E packet \in {None, Some(GeneratedPacket)} :
            Commit(Second(LAMBDA s : update_generate(s, packet), Cur))
    \/ /\ pc["V"] = "u_write"
       /\ EventLoopFree
       /\ \E ok \in BOOLEAN :
            /\ ok => CanSucceed("V")
            /\ Commit(Second(LAMBDA s : update_written(s, ok), Cur))

\* the connection loop on a reliable link, resumed while no update loop
\* runs
LinkStep ==
    /\ \A t \in {"U", "V"} : pc[t] \notin UpdateRunning
    /\ \/ LoopIteration({"go", "idle", "batt", "resend", "both"})
       \/ ScanDone({"filter"}, {"A"})
       \/ ConnectOk
       \/ ServiceDiscoveryDone({"services"})
       \/ InitialZeroWritten(Reliable)
       \/ SubscribeDone(Reliable)
       \/ SyncParametersWritten(Reliable)
       \/ SyncBatteryRead
       \/ ConnectedBatteryRead
       \/ ConnectedWritten(Reliable)

\* start_updates() and stop_updates() called in any order at any time
NextLoops ==
    \/ LinkStep
    \/ StartUpdates
    \/ StartUpdatesAgain
    \/ StopUpdates
    \/ UpdateStep
    \/ SecondUpdateStep

SpecLoops == InitSeq /\ [][NextLoops]_vars

\* ---- concurrent send_command calls (specification SpecSeq) ----------------
\* the frame written in the step that led to s asked for an acknowledgement:
\* its sequence nibble is kept
track_ack(s) ==
    IF s.written.strengths # None
    THEN [s EXCEPT !.last_ack = <<s.written.command[2] \div 16>>]
    ELSE s

SeqInitialZeroWritten ==
    /\ pc["L"] = "sd_write"
    /\ CanSucceed("L")
    /\ Commit(track_ack(initial_zero_written(Cur, TRUE)))
SeqCallerWritten ==
    /\ pc["C"] = "c_write"
    /\ EventLoopFree
    /\ \E ok \in BOOLEAN :
         /\ ok => CanSucceed("C")
         /\ Commit(track_ack(caller_send_written(Cur, ok)))

\* the connection loop on a reliable link and a caller whose send_command
\* calls run while the loop is suspended in an await
NextSeq ==
    \/ LoopIteration({"go", "idle", "batt", "resend", "both"})
    \/ ScanDone({"filter"}, {"A"})
    \/ ConnectOk
    \/ ServiceDiscoveryDone({"services"})
    \/ SeqInitialZeroWritten
    \/ SubscribeDone(Reliable)
    \/ SyncParametersWritten(Reliable)
    \/ SyncBatteryRead
    \/ ConnectedBatteryRead
    \/ ConnectedWritten(Reliable)
    \/ CallerSend
    \/ SeqCallerWritten

SpecSeq == InitSeq /\ [][NextSeq]_vars

\* ---- the scan, one await at a time (specification SpecScan) ---------------
\* the addresses a device may advertise at
ScanAddresses == {"A", "B"}

\* what an awaited scan step may do: return a device, return nothing, raise
ScanOutcomes == {"match", "none", "error"}

ScanIteration ==
    /\ pc["L"] \in {"top", "top_now"}
    /\ iteration_branch(Cur) = SCANNING
    /\ \E o \in IterationChoices(Cur) : Commit(scanning_iteration(Cur, o))
OtherIteration ==
    /\ iteration_branch(Cur) # SCANNING
    /\ LoopIteration({"go", "nochar", "idle", "batt", "resend", "both"})
ScanFilterDone ==
    /\ pc["L"] = "scan_filter"
    /\ \E o \in ScanOutcomes, a \in ScanAddresses :
         /\ o # "match" => a = "A"
         /\ Commit(scan_filter_done(Cur, o, a))
ScanDiscoverDone ==
    /\ pc["L"] = "scan_discover"
    /\ \E o \in ScanOutcomes, a \in ScanAddresses :
         /\ o # "match" => a = "A"
         /\ Commit(scan_discover_done(Cur, o, a))
\* (the miss streak is capped: at the cap the last step finds the device)
ScanNameDone ==
    /\ pc["L"] = "scan_name"
    /\ \E o \in ScanOutcomes, a \in ScanAddresses :
         /\ o # "match" =>
                /\ a = "A"
                /\ \/ deferred
                   \/ scan_failure_streak < MaxStreak
                   \/ is_win /\ scan_failure_streak >= 2
         /\ Commit(scan_name_done(Cur, o, a))
ScanRefreshDone ==
    /\ pc["L"] = "scan_refresh"
    /\ \E o \in ScanOutcomes, a \in ScanAddresses :
         /\ o # "match" =>
                a = "A" /\ (deferred \/ scan_failure_streak < MaxStreak)
         /\ Commit(scan_refresh_done(Cur, o, a))

\* the connection loop with _scan_for_device taken one await at a time, two
\* addresses a device may be seen at, and a link that may drop
NextScan ==
    \/ ScanIteration
    \/ ScanFilterDone
    \/ ScanDiscoverDone
    \/ ScanNameDone
    \/ ScanRefreshDone
    \/ OtherIteration
    \/ ConnectOk
    \/ ConnectFail
    \/ ServiceDiscoveryDone({"services", "empty", "error"})
    \/ InitialZeroWritten(Outcomes)
    \/ SubscribeDone(Outcomes)
    \/ SyncParametersWritten(Outcomes)
    \/ SyncBatteryRead
    \/ ConnectedBatteryRead
    \/ ConnectedWritten(Outcomes)
    \/ BackoffDone
    \/ ZeroWritten("L")
    \/ LinkDisconnectDone("L")
    \/ LinkDrop

SpecScan == Init /\ [][NextScan]_vars

\* ==========================================================================
\* Properties of the connection lifecycle (specification Spec)
\* ==========================================================================
LoopTops == {"top", "top_now"}
LinkStages ==
    {CONNECTING, SERVICE_DISCOVERY, STATUS_SUBSCRIBE, SYNC_PARAMETERS,
     CONNECTED}
ConnectPath ==
    <<CONNECTING, SERVICE_DISCOVERY, STATUS_SUBSCRIBE, SYNC_PARAMETERS,
      CONNECTED>>

\* p occurs in q in order (not necessarily contiguously)
RECURSIVE IsSubsequence(_, _)
IsSubsequence(p, q) ==
    IF p = <<>> THEN TRUE
    ELSE IF q = <<>> THEN FALSE
    ELSE IF Head(p) = Head(q) THEN IsSubsequence(Tail(p), Tail(q))
    ELSE IsSubsequence(p, Tail(q))

\* C1: the stage becomes CONNECTED only from SYNC_PARAMETERS, and only when
\* the stages taken since the last SCANNING contain CONNECTING,
\* SERVICE_DISCOVERY, STATUS_SUBSCRIBE, SYNC_PARAMETERS in that order; it is
\* never entered directly from DISCONNECTED, SCANNING, CONNECTING or
\* SERVICE_DISCOVERY, whatever failures, resets and disconnects interleave.
C1_ConnectedOnlyInOrder ==
    [][(connection_stage' = CONNECTED /\ connection_stage # CONNECTED)
          => /\ connection_stage = SYNC_PARAMETERS
             /\ IsSubsequence(ConnectPath, trail')]_vars

\* the order of the stages alone, which the loop does keep
C1_PathInOrder ==
    [][(connection_stage' = CONNECTED /\ connection_stage # CONNECTED)
          => IsSubsequence(ConnectPath, trail')]_vars

ForwardEdges ==
    {<<DISCONNECTED, SCANNING>>, <<SCANNING, CONNECTING>>,
     <<CONNECTING, SERVICE_DISCOVERY>>,
     <<SERVICE_DISCOVERY, STATUS_SUBSCRIBE>>,
     <<STATUS_SUBSCRIBE, SYNC_PARAMETERS>>, <<SYNC_PARAMETERS, CONNECTED>>}
FailureEdges == {<<st, SCANNING>> : st \in LinkStages}

\* this step completes disconnect() or the loop's force-disconnect branch
DisconnectRequested ==
    \/ pc["D"] # "done" /\ pc'["D"] = "done"
    \/ pc["L"] # "halted" /\ ret' = "force"

\* C2: every change of the connection stage is a forward edge of the
\* lifecycle graph, a failure or link-drop edge from CONNECTING ..
\* CONNECTED to SCANNING, or a move to DISCONNECTED made by a requested
\* temporary or permanent disconnect; no other move to DISCONNECTED and no
\* skipped stage occurs.
C2_LifecycleEdges ==
    [][connection_stage' # connection_stage
          => \/ <<connection_stage, connection_stage'>>
                    \in ForwardEdges \cup FailureEdges
             \/ connection_stage' = DISCONNECTED /\ DisconnectRequested]_vars

\* task t issues client.disconnect() in this step
IssuesLinkDisconnect(t) == pc[t] # "dc_disc" /\ pc'[t] = "dc_disc"

\* the teardown task t is in was asked for: disconnect(), or the loop's
\* force-disconnect branch after reset_connection()
Intentional(t) == t = "D" \/ ret' = "force"

\* task t has a power command with all pulse intensities zero in flight
ZeroCommandInFlight(t) ==
    /\ pc[t] = "dc_write"
    /\ Len(call[t].command) = 4 + 4 * PULSES_PER_PACKET
    /\ call[t].command[1] = CMD_B0
    /\ \A i \in 1..PULSES_PER_PACKET :
         /\ call[t].command[4 + PULSES_PER_PACKET + i] = 0
         /\ call[t].command[4 + 3 * PULSES_PER_PACKET + i] = 0

\* C3 as stated: in every intentional teardown the link disconnect is
\* issued only after a zero-intensity power command was written (attempted),
\* whatever the stage and the state of the client.
C3_ZeroBeforeDisconnect ==
    [][\A t \in {"L", "D"} :
          (IssuesLinkDisconnect(t) /\ Intentional(t))
              => ZeroCommandInFlight(t)]_vars

\* C3 amended: in every intentional teardown the link disconnect is issued
\* after a zero-intensity power command was written (attempted) whenever the
\* client was connected when the teardown began; on a handle that is not
\* connected the link disconnect is issued without any write.
C3_ZeroBeforeDisconnectIfConnected ==
    [][\A t \in {"L", "D"} :
          (IssuesLinkDisconnect(t) /\ Intentional(t))
              => \/ ZeroCommandInFlight(t)
                 \/ pc[t] # "dc_write" /\ ~link_up]_vars

\* disconnect() has had its zero-pulse command written and now awaits the
\* link disconnect
C3_Witness == pc["D"] = "dc_disc" /\ returned = <<TRUE>>

\* C4: disconnect() always completes its teardown: no failure leaves the
\* coroutine, the link disconnect is issued after the zero-pulse write has
\* failed on all retries (unless the handle has been released meanwhile),
\* disconnect() ends whatever the link disconnect did, and at its end the
\* client handle is released and the stage is DISCONNECTED.
C4_DisconnectCompletes ==
    [][/\ pc'["D"] # "raised"
       /\ (pc["D"] = "dc_write" /\ pc'["D"] # "dc_write"
                 /\ returned' = <<FALSE>>)
             => pc'["D"] = "dc_disc" \/ client = "none"
       /\ (pc["D"] = "dc_disc" /\ pc'["D"] # "dc_disc") => pc'["D"] = "done"
       /\ (pc["D"] # "done" /\ pc'["D"] = "done")
             => client' = "none" /\ connection_stage' = DISCONNECTED]_vars

\* disconnect() awaits the link disconnect after its zero-pulse write failed
\* on every retry
C4_Witness == pc["D"] = "dc_disc" /\ att["D"] = max_retries

\* the reasons for a teardown that mean the loop found the link gone
DropReasons == {"drop", "rec_cont", "rec_lost"}

\* this step ends a loop iteration that found the link gone
EndsDropIteration ==
    /\ pc'["L"] \in LoopTops
    /\ ret' \in DropReasons
    /\ pc["L"] \notin LoopTops \/ ret \notin DropReasons

\* C5: at the end of the loop iteration that observes a link drop in a stage
\* from CONNECTING to CONNECTED the stage is SCANNING and the
\* first-active-power-seen flag is false.
C5_DropToScanning ==
    [][EndsDropIteration
          => connection_stage' = SCANNING /\ ~first_active_power_seen']_vars

\* C6: every transition back to SCANNING from a stage with a link leaves
\* the first-active-power-seen flag false, the scan retry counter 0 and no
\* scan retry delay pending.
C6_ScanningClears ==
    [][(connection_stage \in LinkStages /\ connection_stage' = SCANNING)
          => /\ ~first_active_power_seen'
             /\ scan_attempt_counter' = 0
             /\ next_scan_time' = 0]_vars

\* the payloads the ActivePower notifications carry
ActivePowerPayloads ==
    {<<d[3], d[4]>> : d \in {n \in NotificationData :
                               n[1] = CMD_ACTIVE_POWER}}

\* C7: in every link session the first ActivePower notification handled is
\* reported as (0, 0), and every later one of the session is reported with
\* its payload.
C7_FirstActivePowerZero ==
    [][reported' # <<>>
          => IF session_first_done THEN reported' \in ActivePowerPayloads
             ELSE reported' = <<0, 0>>]_vars

\* the persisted address is cleared in this step
AddressCleared == persisted_address # "none" /\ persisted_address' = "none"

\* C15 as stated: the persisted address is cleared on the third connect
\* failure in a row on the cached address and not before; the clear leaves
\* no address cached and the cache-failure counter at 0, where it stays
\* while no address is cached, so that no later failure clears again before
\* a scan match has persisted a new address.
C15_ClearOnThirdCachedFailure ==
    [][/\ AddressCleared
             => /\ cached_fail_run' = 3
                /\ last_device_address' = "none"
                /\ cached_connect_failure_count' = 0
       /\ (cached_fail_run' # cached_fail_run /\ cached_fail_run' = 3)
             => AddressCleared
       /\ (cached_fail_run' # cached_fail_run /\ cached_fail_run' \in {1, 2})
             => persisted_address' = persisted_address
                   /\ persisted_address' # "none"
       /\ cached_fail_run' <= 3
       /\ persisted_address' = "none"
             => cached_connect_failure_count' = 0]_vars

\* a connect attempt on the cached address fails in this step
CachedConnectFailure == cached_fail_run' = cached_fail_run + 1

\* C15 amended: the persisted address is cleared by a connect failure on the
\* cached address exactly when it is the third such failure since the
\* cache-failure counter was last reset (by a successful connect or by a
\* scan match persisting an address, the same one included), never before
\* the third failure in a row; the clear leaves no address cached and the
\* counter at 0, where it stays while no address is cached.
C15_ClearOnThirdSinceReset ==
    [][/\ AddressCleared
             => /\ CachedConnectFailure
                /\ cached_connect_failure_count = 2
                /\ cached_fail_run' >= 3
                /\ last_device_address' = "none"
                /\ cached_connect_failure_count' = 0
       /\ (CachedConnectFailure /\ cached_connect_failure_count = 2)
             => AddressCleared
       /\ (CachedConnectFailure /\ cached_connect_failure_count < 2)
             => /\ cached_connect_failure_count'
                      = cached_connect_failure_count + 1
                /\ persisted_address' = persisted_address
       /\ cached_connect_failure_count' \in 0..2
       /\ persisted_address' = "none"
             => cached_connect_failure_count' = 0]_vars

\* the third failure in a row has cleared the address
C15_Witness == cached_fail_run = 3 /\ persisted_address = "none"

\* the connection loop starts an iteration with a reset_connection() request
\* pending
ForceIterationStarts ==
    /\ pc["L"] \in LoopTops
    /\ ~shutdown
    /\ force_disconnect
    /\ ~force_disconnect'

\* the connection loop takes a later step of such an iteration
ForceIterationGoesOn ==
    /\ ret = "force"
    /\ pc["L"] \in {"dc_write", "dc_disc"}
    /\ pc'["L"] # pc["L"] \/ att'["L"] # att["L"]

\* C16: an iteration of the connection loop that starts with a
\* reset_connection() request pending clears the request and does the
\* teardown only, whatever the stage: each of its steps leaves the address
\* (in memory and persisted), the cache-failure counter and the shutdown flag
\* as they are, waits on nothing but the zero-pulse write and the link
\* disconnect of the teardown, writes nothing but the zero-pulse command, and
\* the iteration ends with the stage DISCONNECTED and the client released.
C16_ForceIterationOnlyTearsDown ==
    [][(ForceIterationStarts \/ ForceIterationGoesOn)
         => /\ ret' = "force"
            /\ ForceIterationGoesOn => force_disconnect' = force_disconnect
            /\ UNCHANGED <<last_device_address, persisted_address,
                           cached_connect_failure_count, shutdown>>
            /\ UNCHANGED <<using_cached_address, skip_cached_reconnect_scans,
                           scan_failure_streak, connect_failure_streak,
                           had_successful_connection, sessions>>
            /\ pc'["L"] \in {"dc_write", "dc_disc", "top_now"}
            /\ written' # NoCall
                  => written'.command = BuildCommand(sequence_number, None,
                                                     Some(zero_pulses))
            /\ IF pc'["L"] = "top_now"
               THEN connection_stage' = DISCONNECTED /\ client' = "none"
               ELSE connection_stage' = connection_stage]_vars

RecoverReasons ==
    {"rec_cont", "rec_missing", "rec_lost", "rec_emit", "rec_connect",
     "rec_outer"}

\* where the connection loop is when _recover_from_transient_failure has set
\* the stage
AfterRecovery == LoopTops \cup {"backoff"}

\* the connection loop finishes the recovery from a failure in this step
FailureHandled ==
    /\ ret' \in RecoverReasons
    /\ pc'["L"] \in AfterRecovery
    /\ pc["L"] \notin AfterRecovery \/ ret' # ret

\* a scan ends in this step without a device
ScanMissed ==
    /\ pc["L"] = "scan_wait"
    /\ pc'["L"] \in LoopTops
    /\ connection_stage' # CONNECTING

\* C18: no failure of the link ends the connection loop: the loop is never
\* left by an exception and it halts only when disconnect() has been
\* requested; every recovery from a failure (connect timeout or error,
\* service discovery, subscribe, parameter sync, unexpected exception) leaves
\* the stage at SCANNING with the client released, and so does a scan miss
\* while no disconnect() has been requested.
C18_NoFailureIsFatal ==
    [][/\ pc'["L"] # "raised"
       /\ pc'["L"] = "halted" => shutdown'
       /\ FailureHandled
             => connection_stage' = SCANNING /\ client' = "none"
       /\ (ScanMissed /\ ~shutdown')
             => connection_stage' = SCANNING /\ client' = "none"]_vars

\* the loop has recovered from an exception raised in the body of an
\* iteration and goes on
C18_Witness ==
    /\ ret = "rec_outer"
    /\ pc["L"] = "top"
    /\ connection_stage = SCANNING
    /\ client = "none"
    /\ ~shutdown

EntersConnected ==
    connection_stage # CONNECTED /\ connection_stage' = CONNECTED

\* the write of the 7-byte frame of the current parameters succeeds in this
\* step, on a link that is up
ParameterFrameWritten ==
    /\ link_up
    /\ Len(ParameterCommand(parameters)) = 7
    /\ written'.command = ParameterCommand(parameters)

\* C19: the stage enters CONNECTED, on a first connection and on a
\* reconnection, only from SYNC_PARAMETERS and only after the write of the
\* 7-byte frame of the current parameters has succeeded on the link of that
\* session (in that step, or before the battery read that the loop awaits in
\* between, during which no new session starts); when the write fails on all
\* retries or the client is not connected the recovery starts, the stage
\* does not become CONNECTED and the recovery leaves it at SCANNING.
C19_SyncBeforeConnected ==
    [][/\ EntersConnected
             => /\ connection_stage = SYNC_PARAMETERS
                   \/ (shutdown /\ connection_stage = DISCONNECTED)
                /\ \/ pc["L"] = "sync_write" /\ ParameterFrameWritten
                   \/ pc["L"] = "sync_batt"
       /\ (pc["L"] # "sync_batt" /\ pc'["L"] = "sync_batt")
             => pc["L"] = "sync_write" /\ ParameterFrameWritten
       /\ pc["L"] \in {"sync_write", "sync_batt"} => sessions' = sessions
       /\ (pc["L"] = "sync_write" /\ pc'["L"] # "sync_write"
              /\ written' = NoCall)
             => ret' = "rec_emit" /\ connection_stage' # CONNECTED
       /\ (pc["L"] \in LoopTops /\ connection_stage = SYNC_PARAMETERS
              /\ ~shutdown /\ ~force_disconnect /\ ~is_connected(Cur)
              /\ ret' # "none")
             => ret' = "rec_lost" /\ connection_stage' # CONNECTED
       /\ (FailureHandled /\ ret' \in {"rec_emit", "rec_lost"})
             => connection_stage' = SCANNING]_vars

\* the stage is CONNECTED again, on the second link session
C19_Witness ==
    /\ connection_stage = CONNECTED
    /\ sessions = 2
    /\ pc["L"] = "top"
    /\ prev_stage = CONNECTED

\* C17: once disconnect() has set the shutdown flag the connection loop
\* ends: with the loop scheduled fairly and its awaits returning, the loop
\* reaches the exit of "while not self._shutdown", and from then on it takes
\* no step, so it starts no iteration and issues no scan, connect or write.
C17_LoopTerminates ==
    /\ shutdown ~> pc["L"] = "halted"
    /\ [][pc["L"] = "halted"
            => /\ shutdown
               /\ pc'["L"] = "halted"
               /\ call'["L"] = NoCall
               /\ UNCHANGED <<ret, sessions>>]_vars

\* the loop has ended after disconnect() arrived while the stage was
\* CONNECTED
C17_Witness ==
    /\ pc["L"] = "halted"
    /\ pc["D"] = "done"
    /\ prev_stage = CONNECTED
    /\ sessions >= 1

\* a reset_connection() made while CONNECTED has been served: the link is
\* torn down, the stage is DISCONNECTED and the address is still cached
C16_Witness ==
    /\ ret = "force"
    /\ pc["L"] = "top_now"
    /\ prev_stage = CONNECTED
    /\ connection_stage = DISCONNECTED
    /\ ~force_disconnect
    /\ persisted_address = "A"

\* ==========================================================================
\* Properties of the periodic parameter sync (specification SpecTimer)
\* ==========================================================================

\* the stage has been CONNECTED for 5.0 s and nothing else has happened
QuietFiveSeconds ==
    /\ connection_stage = CONNECTED
    /\ quiet
    /\ now - connected_at >= parameter_resend_period

\* C20: when the stage has been CONNECTED for 5.0 s with no other event,
\* exactly one parameter frame has been written since the stage became
\* CONNECTED (the frame of SYNC_PARAMETERS not counted), on the first
\* connection and on a reconnection; before that, at most one.
C20_OneResendInFiveSeconds ==
    /\ QuietFiveSeconds => resends = 1
    /\ (connection_stage = CONNECTED /\ quiet) => resends <= 1

\* 5.0 s have passed quietly since a reconnection
C20_Witness == QuietFiveSeconds /\ sessions = 2 /\ resends = 1

\* ==========================================================================
\* Properties of send_command (specification SpecSend)
\* ==========================================================================
\* C8: the sequence number is always in 0..15; a send_command call whose
\* write succeeds moves it from n to (n + 1) mod 16, and a call that fails on
\* every attempt or returns early leaves it as it was.
C8_SequenceNumber ==
    /\ sequence_number \in 0..15
    /\ [][/\ sequence_number' \in 0..15
          /\ returned' = <<TRUE>>
                => sequence_number' = (sequence_number + 1) % 16
          /\ returned' = <<FALSE>>
                => sequence_number' = sequence_number]_vars

\* a successful write has just wrapped the sequence number to 0
C8_Witness == returned = <<TRUE>> /\ sequence_number = 0

\* the link accepted a power command in the step that led here
PowerCommandWritten ==
    written.command # <<>> /\ written.command[1] = CMD_B0

\* C9 as stated: the sequence number changes only when a power command that
\* requests an acknowledgement (one with strengths) was written
\* successfully; a pulses-only command leaves it unchanged.
C9_AdvanceOnlyOnAck ==
    [][sequence_number' # sequence_number
          => PowerCommandWritten' /\ written'.strengths # None]_vars

\* C9 amended: the sequence number changes exactly when a power command was
\* written successfully, whether or not it requested an acknowledgement.
C9_AdvanceOnEveryWrite ==
    [][sequence_number' # sequence_number <=> PowerCommandWritten']_vars

\* a pulses-only command has just been written successfully
C9_Witness ==
    /\ PowerCommandWritten
    /\ written.strengths = None
    /\ returned = <<TRUE>>

\* the control byte of power command c built at sequence number seq is the
\* one the protocol asks for
ControlByteAsSpecified(c, seq) ==
    LET cb == c.command[2]
        nibble == cb \div 16
        mode_a == (cb \div 4) % 4
        mode_b == cb % 4
    IN  IF c.strengths # None
        THEN /\ nibble = seq /\ nibble # 0
             /\ mode_a = INTERP_ABSOLUTE_SET /\ mode_b = INTERP_ABSOLUTE_SET
        ELSE /\ nibble = 0
             /\ mode_a = INTERP_NO_CHANGE /\ mode_b = INTERP_NO_CHANGE

\* C10: every frame send_command builds with strengths carries the current
\* sequence number, which is nonzero, in the upper nibble of its control
\* byte and ABSOLUTE_SET for both channels; a frame with pulses only carries
\* nibble 0 and NO_CHANGE for both channels.
C10_ControlByte ==
    [][\A t \in Tasks :
          (call'[t] # call[t] /\ call'[t].command # <<>>
                 /\ call'[t].command[1] = CMD_B0)
              => ControlByteAsSpecified(call'[t], sequence_number)]_vars

\* the intensities of a pulses argument, both channels
PulseIntensities(pul) ==
    {pul[1].channel_a[i].intensity : i \in 1..Len(pul[1].channel_a)}
        \cup {pul[1].channel_b[i].intensity : i \in 1..Len(pul[1].channel_b)}

\* a pulses argument that is given and has every intensity in 0..100
AcceptedPulses(pul) ==
    pul # None /\ \A x \in PulseIntensities(pul) : x >= 0 /\ x <= 100

\* a pulses argument that is given and has an intensity outside 0..100
RejectedPulses(pul) ==
    pul # None /\ \E x \in PulseIntensities(pul) : x < 0 \/ x > 100

\* a task has built a power command in this step
BuildsPowerCommand(t) ==
    /\ call'[t] # call[t]
    /\ call'[t].command # <<>>
    /\ call'[t].command[1] = CMD_B0

\* C11: every power command send_command writes carries strengths and/or an
\* accepted pulses payload, never neither; a call with neither argument
\* writes nothing and returns False.
C11_FrameHasPayload ==
    [][/\ PowerCommandWritten'
             => \/ written'.strengths # None
                \/ AcceptedPulses(written'.pulses)
       /\ called' = <<[strengths |-> None, pulses |-> None]>>
             => returned' = <<FALSE>> /\ written' = NoCall /\ call' = call]_vars

\* C12: when a pulse of either channel has an intensity outside 0..100 the
\* pulse block of the frame is sixteen zero bytes, and the command byte, the
\* control byte and the two strength bytes are those of the same call made
\* with valid pulses.
C12_RejectedPulsesPad ==
    [][\A t \in Tasks :
          (BuildsPowerCommand(t) /\ RejectedPulses(call'[t].pulses))
              => LET c == call'[t]
                     good == BuildCommand(sequence_number, c.strengths,
                                          Some(zero_pulses))
                 IN  /\ Len(c.command) = 20
                     /\ \A i \in 5..20 : c.command[i] = 0
                     /\ \A i \in 1..4 : c.command[i] = good[i]
                     /\ c.command[3] =
                            (IF c.strengths # None THEN c.strengths[1][1]
                             ELSE 0)
                     /\ c.command[4] =
                            (IF c.strengths # None THEN c.strengths[1][2]
                             ELSE 0)]_vars

\* a frame with strengths and rejected pulses was written
C12_Witness ==
    /\ PowerCommandWritten
    /\ written.strengths # None
    /\ RejectedPulses(written.pulses)

\* C13: a send_command call made with no client handle or with a client
\* that is not connected writes nothing, returns False and leaves the
\* sequence number as it was; the local strengths become the supplied ones
\* when strengths were supplied and are unchanged otherwise.
C13_OfflineCall ==
    [][(called' # <<>> /\ ~(client = "handle" /\ link_up))
          => /\ returned' = <<FALSE>>
             /\ written' = NoCall
             /\ call' = call
             /\ sequence_number' = sequence_number
             /\ strengths' = IF called'[1].strengths # None
                             THEN called'[1].strengths[1]
                             ELSE strengths]_vars

\* an offline call with strengths (5, 6) has just returned False
C13_Witness ==
    /\ called # <<>>
    /\ called[1].strengths = Some(<<5, 6>>)
    /\ returned = <<FALSE>>
    /\ ~link_up
    /\ strengths = <<5, 6>>

\* C14: a send_command call makes at most 3 write attempts, returns True at
\* the first attempt that succeeds and False after 3 failed attempts, and
\* for every combination of arguments it returns a boolean: no exception
\* leaves the call.
C14_BooleanResult ==
    [][/\ \A t \in Tasks : att'[t] \in 0..3
       /\ returned' = <<TRUE>> => PowerCommandWritten'
       /\ PowerCommandWritten' => returned' = <<TRUE>>
       /\ \A t \in Tasks :
             (call[t] # NoCall /\ call[t].command[1] = CMD_B0
                    /\ att[t] = 2 /\ call'[t] = NoCall /\ written' = NoCall)
                 => returned' = <<FALSE>>
       /\ called' # <<>> => exception' = "none"
       /\ exception' = "none"]_vars

\* ==========================================================================
\* Properties of the status notifications (specification SpecNotify)
\* ==========================================================================
\* a status payload of fewer than 4 bytes was handled in this step
ShortPayloadHandled == delivered # <<>> /\ Len(delivered[1]) < 4

\* C21: a status notification that is empty or shorter than 4 bytes,
\* whatever its first byte, is dropped: the handler returns without raising
\* and leaves the connection stage, the strengths, the sequence number and
\* the first-active-power-seen flag unchanged.
C21_ShortNotificationDropped ==
    [][ShortPayloadHandled' =>
          /\ exception' = "none"
          /\ UNCHANGED <<connection_stage, strengths, sequence_number,
                         first_active_power_seen>>]_vars

\* C22: in every reachable state both channel strengths are within 0..200,
\* for any sequence of send_command calls (connected or not) and of
\* PowerUpdate notifications whose strength bytes range over 0..255.
C22_StrengthsInRange ==
    /\ strengths[1] \in 0..200
    /\ strengths[2] \in 0..200

\* ==========================================================================
\* Properties of the update loop and the facade (specification SpecUpdate)
\* ==========================================================================
\* positions at which a task awaits a link operation it has issued: a write
\* (send_command), a read (_read_battery_level) or the link disconnect
LinkOperationAwaits == {"dc_write", "dc_disc", "c_write", "u_write", "u_batt"}

\* the step is one of the connection loop: no other task has moved
ConnectionLoopStep == \A t \in Tasks \ {"L"} : pc'[t] = pc[t]

\* C23: under every interleaving of the connection loop, the update loop
\* and the facade calls, only the connection-loop task changes the
\* connection stage and the client handle, and only that task issues link
\* operations: a send requested by the update loop or by a caller is never
\* performed as a link write by the requesting task itself.
C23_SingleOwner ==
    [][/\ (connection_stage' # connection_stage \/ client' # client)
            => ConnectionLoopStep
       /\ \A t \in Tasks \ {"L"} : pc'[t] \notin LinkOperationAwaits]_vars

\* stop_updates() is the step that sets self.algorithm to None
StopUpdatesStep == algorithm = "alg" /\ algorithm' = "none"

\* the update loop has been started and has not exited
UpdateLoopAlive == pc["U"] \notin {"idle", "u_exit"}

\* C25: after stop_updates() the update loop eventually exits and forwards
\* no pulse packet generated after the stop; stop_updates() itself leaves
\* the connection stage, the client handle, the shutdown flag and the
\* sequence number unchanged.
C25_StopUpdates ==
    /\ (algorithm = "none" /\ UpdateLoopAlive) ~> (pc["U"] = "u_exit")
    /\ [][forwarded' # <<>> => forwarded'[1] = FALSE]_vars
    /\ [][StopUpdatesStep =>
             UNCHANGED <<connection_stage, client, shutdown,
                         sequence_number>>]_vars

\* ==========================================================================
\* Properties of the connectivity notification (specification SpecFair)
\* ==========================================================================
\* connection_status_changed is emitted at one place, the end of an
\* iteration, together with prev_stage = self.connection_stage: observers
\* have been told the stage st exactly when prev_stage has become st.
\* the stage is st and observers have not been told so
Untold(st) == connection_stage = st /\ prev_stage # st

\* C24: every change of the connection stage is eventually followed by a
\* connectivity-changed notification carrying the new stage (connected is
\* true exactly for CONNECTED); in particular, after the stage has left
\* CONNECTED for any reason, observers eventually receive
\* connectivity-changed with connected = false.
C24_StageChangeNotified ==
    /\ \A st \in ConnectionStage : Untold(st) ~> (prev_stage = st)
    /\ (prev_stage = CONNECTED /\ connection_stage # CONNECTED)
          ~> (prev_stage # CONNECTED)

\* ==========================================================================
\* Properties of the pulse generator (specification SpecPulse)
\* ==========================================================================
\* create_pulse was called with the frequency f in Hz as its control value
\* and a user window that contains f
TargetFrequency(f) ==
    /\ pulse # <<>>
    /\ ~pulse[1].using_funscript
    /\ pulse[1].raw_value = f
    /\ pulse[1].user_freq_min <= f
    /\ f <= pulse[1].user_freq_max

Nearest(k, x) ==
    LET diff == k * x[2] - x[1]
    IN  2 * (IF diff < 0 THEN 0 - diff ELSE diff) <= x[2]

\* base_duration_ms of the call made: clamp(1000 / target_hz, MIN, MAX)
CallBaseDuration ==
    base_duration(requested_frequency(
        pulse[1].raw_value, pulse[1].using_funscript,
        pulse[1].user_freq_min, pulse[1].user_freq_max))

\* the call min_hz = 10, max_hz = 100, raw = 50 in normalized mode
ScenarioCall ==
    /\ pulse # <<>>
    /\ pulse[1].using_funscript
    /\ pulse[1].raw_value = 50
    /\ pulse[1].user_freq_min = 10
    /\ pulse[1].user_freq_max = 100

\* C27: create_pulse returns a pulse whose duration is base_duration_ms
\* rounded to the nearest integer millisecond, where base_duration_ms is
\* clamp(1000 / target_hz, MIN, MAX) and target_hz is
\* min_hz + (raw / 100) * (max_hz - min_hz) in normalized mode or
\* clamp(raw, min_hz, max_hz) in direct mode; for min_hz = 10, max_hz = 100,
\* raw = 50 in normalized mode the result is duration 18 and frequency 56.
C27_DurationRounded ==
    /\ pulse # <<>> => Nearest(pulse[1].result.duration, CallBaseDuration)
    /\ ScenarioCall => /\ pulse[1].result.duration = 18
                       /\ pulse[1].result.frequency = 56


\* ---- claims: service discovery (Spec) ---------------------------------------

\* the loop is inside _send_initial_power_zero: get_services returned at
\* least one service and the 0.5 s sleep is over
ServicesDiscovered == pc["L"] = "sd_write"

\* the step has written a strengths=(0,0) command with ABSOLUTE_SET for both
\* channels and send_command returned True
ZeroCommandWritten ==
    /\ PowerCommandWritten'
    /\ written'.strengths = Some(<<0, 0>>)
    /\ written'.command[3] = 0 /\ written'.command[4] = 0
    /\ (written'.command[2] \div 4) % 4 = INTERP_ABSOLUTE_SET
    /\ written'.command[2] % 4 = INTERP_ABSOLUTE_SET
    /\ returned' = <<TRUE>>

\* the loop issues start_notify in this step
SubscriptionMade == pc["L"] # "sub_wait" /\ pc'["L"] = "sub_wait"

\* C28: the stage becomes STATUS_SUBSCRIBE only in a step of the
\* SERVICE_DISCOVERY branch that follows a discovery of services and writes a
\* strengths=(0,0) ABSOLUTE_SET command successfully on the link; every other
\* assignment of the stage in that branch is SCANNING, and a SERVICE_DISCOVERY
\* iteration that disconnect() does not overlap ends in one of the two; no
\* subscription is made on a link before a zero-strength command was written
\* on it.
C28_DiscoveryThenZero ==
    /\ [][(connection_stage' = STATUS_SUBSCRIBE
           /\ connection_stage # STATUS_SUBSCRIBE)
          => /\ branch = SERVICE_DISCOVERY
             /\ ServicesDiscovered
             /\ ZeroCommandWritten
             /\ link_up /\ client' = client]_vars
    /\ [][(branch' = SERVICE_DISCOVERY
           /\ connection_stage' # connection_stage
           /\ pc'["D"] = pc["D"])
          => connection_stage' \in {STATUS_SUBSCRIBE, SCANNING}]_vars
    /\ [](branch = SERVICE_DISCOVERY /\ pc["L"] \in LoopTops
          /\ pc["D"] = "idle"
          => connection_stage \in {STATUS_SUBSCRIBE, SCANNING})
    /\ [][SubscriptionMade => zero_on_link /\ client' = client]_vars

\* the zero command of the SERVICE_DISCOVERY branch has just been written and
\* the stage is STATUS_SUBSCRIBE
C28_Witness ==
    /\ branch = SERVICE_DISCOVERY
    /\ connection_stage = STATUS_SUBSCRIBE
    /\ written.strengths = Some(<<0, 0>>)
    /\ returned = <<TRUE>>
    /\ zero_on_link


\* ---- claims: the scan (SpecScan) -------------------------------------------

\* the order the steps of one scan attempt are tried in
ScanOrder == <<"cached", "filter", "discover", "name", "refresh", "deferred">>

\* the place of step in ScanOrder
Rank(step) == CHOOSE i \in 1..Len(ScanOrder) : ScanOrder[i] = step

\* the steps that look for the device afresh, and the binds to the cached
\* address
FreshSteps == {"filter", "discover", "name", "refresh"}
BindSteps == {"cached", "deferred"}

\* the platform whose BLE stack keeps stale handles
QuirkyPlatform == is_win

\* this step tries another step of the scan attempt
StepTried(step) ==
    /\ scan_steps' # scan_steps
    /\ scan_steps' # <<>>
    /\ scan_steps'[Len(scan_steps')] = step

\* C29: the steps of one scan attempt are tried in the order cached bind,
\* filter scan, discovery, name search, active scan, deferred bind, and the
\* attempt ends with the first step that matches; the cached bind is tried
\* only with a cached address out of cooldown, the active scan only on the
\* quirky platform with a miss streak of 2 or more; on the quirky platform
\* with a miss streak below 2 no bind is tried before filter scan, discovery
\* and name search of the attempt have all found nothing.
C29_ScanOrder ==
    /\ [](\A i, j \in 1..Len(scan_steps) :
            i < j => Rank(scan_steps[i]) < Rank(scan_steps[j]))
    /\ [](\A i \in 1..Len(scan_steps) :
            /\ scan_steps[i] = "cached" => Len(scan_steps) = 1
            /\ scan_steps[i] \in {"discover", "name"} =>
                   i > 1 /\ Rank(scan_steps[i - 1]) = Rank(scan_steps[i]) - 1
            /\ scan_steps[i] \in {"refresh", "deferred"} =>
                   {"filter", "discover", "name"}
                       \subseteq {scan_steps[k] : k \in 1..(i - 1)})
    /\ [](scanned # <<>> =>
            /\ pc["L"] \in LoopTops
            /\ scanned[1].found =>
                   scan_steps[Len(scan_steps)] = scanned[1].step
            /\ ~scanned[1].found =>
                   /\ {"filter", "discover", "name"}
                          \subseteq {scan_steps[k] : k \in 1..Len(scan_steps)}
                   /\ QuirkyPlatform /\ scan_failure_streak > 2
                          => scan_steps[Len(scan_steps)] = "refresh")
    /\ [][StepTried("cached") =>
            /\ last_device_address # "none"
            /\ skip_cached_reconnect_scans <= 0]_vars
    /\ [][StepTried("refresh") =>
            QuirkyPlatform /\ scan_failure_streak >= 2]_vars
    /\ [][(QuirkyPlatform /\ scan_failure_streak < 2)
            => /\ ~StepTried("cached")
               /\ StepTried("deferred") =>
                      /\ scan_steps = <<"filter", "discover", "name">>
                      /\ pc["L"] = "scan_name"]_vars

\* on the quirky platform a scan attempt has gone through filter scan,
\* discovery and name search and has ended with the deferred bind
C29_Witness ==
    /\ QuirkyPlatform
    /\ scan_steps = <<"filter", "discover", "name", "deferred">>
    /\ scanned # <<>> /\ scanned[1].found /\ scanned[1].step = "deferred"

\* C30 as stated: every match, the binds to the cached address included,
\* leaves the persisted address at the matched address, the cache-failure
\* counter at 0 and the miss streak at 0; every miss adds 1 to the streak and
\* leaves the persisted address alone.
C30_EveryMatchResets ==
    [][scanned' # <<>> =>
         IF scanned'[1].found
         THEN /\ persisted_address' = scanned'[1].address
              /\ cached_connect_failure_count' = 0
              /\ scan_failure_streak' = 0
         ELSE /\ scan_failure_streak' = scan_failure_streak + 1
              /\ persisted_address' = persisted_address]_vars

\* C30: every match by a scan leaves the persisted and the cached address at
\* the matched address, the cache-failure counter at 0, the cooldown at 0 and
\* the miss streak at 0; a bind to the cached address leaves the miss streak
\* at 0, the persisted address (which is the bound one) and the cache-failure
\* counter as they were; every miss adds 1 to the streak and leaves the
\* persisted address and the counter alone.
C30_ScanMatchResets ==
    [][scanned' # <<>> =>
         IF scanned'[1].found /\ scanned'[1].step \in FreshSteps
         THEN /\ persisted_address' = scanned'[1].address
              /\ last_device_address' = scanned'[1].address
              /\ cached_connect_failure_count' = 0
              /\ skip_cached_reconnect_scans' = 0
              /\ scan_failure_streak' = 0
         ELSE IF scanned'[1].found
         THEN /\ scanned'[1].step \in BindSteps
              /\ scanned'[1].address = persisted_address
              /\ persisted_address' = persisted_address
              /\ cached_connect_failure_count'
                     = cached_connect_failure_count
              /\ scan_failure_streak' = 0
         ELSE /\ scan_failure_streak' = scan_failure_streak + 1
              /\ persisted_address' = persisted_address
              /\ cached_connect_failure_count'
                     = cached_connect_failure_count]_vars

\* a scan attempt has just ended with a bind to the cached address while the
\* cache-failure counter is not 0
C30_Witness ==
    /\ scanned # <<>> /\ scanned[1].found
    /\ scanned[1].step \in BindSteps
    /\ cached_connect_failure_count > 0


\* ---- claims: the CONNECTING stage (Spec) ------------------------------------

\* client.connect() timed out or raised in this step
ConnectFailedStep == pc["L"] = "connect_wait" /\ ret' = "rec_connect"

\* the CONNECTING branch found no client in this step
ConnectMissingClientStep ==
    pc["L"] \in LoopTops /\ branch' = CONNECTING /\ ret' = "rec_missing"

\* client.connect() returned in this step
ConnectedStep ==
    /\ pc["L"] = "connect_wait" /\ pc'["L"] # "connect_wait"
    /\ ret' # "rec_connect"

\* C31 as stated: every failure of CONNECTING adds exactly 1 to the
\* connect-failure streak, and exactly 1 to the cache-failure counter if and
\* only if the attempt used the cached address; a successful connect sets
\* both to 0.
C31_FailureCounts ==
    [][/\ (ConnectFailedStep \/ ConnectMissingClientStep)
          => /\ connect_failure_streak' = connect_failure_streak + 1
             /\ cached_connect_failure_count' =
                    cached_connect_failure_count
                    + (IF using_cached_address THEN 1 ELSE 0)
       /\ ConnectedStep
          => /\ connect_failure_streak' = 0
             /\ cached_connect_failure_count' = 0]_vars

\* C31: every connect that times out or raises adds exactly 1 to the
\* connect-failure streak; it adds exactly 1 to the cache-failure counter if
\* and only if the attempt used the cached address, except that the failure
\* that would bring the counter to the limit discards the cached address and
\* leaves the counter at 0; a successful connect sets both to 0.
C31_FailureCountsUpToLimit ==
    [][/\ ConnectFailedStep
          => /\ connect_failure_streak' = connect_failure_streak + 1
             /\ cached_connect_failure_count' =
                    IF ~using_cached_address
                    THEN cached_connect_failure_count
                    ELSE IF cached_connect_failure_count + 1
                                >= cached_connect_failure_limit
                    THEN 0
                    ELSE cached_connect_failure_count + 1
             /\ (using_cached_address
                 /\ cached_connect_failure_count + 1
                        >= cached_connect_failure_limit)
                => last_device_address' = "none"
       /\ ConnectedStep
          => /\ connect_failure_streak' = 0
             /\ cached_connect_failure_count' = 0]_vars

\* a connect to the cached address has just failed for the second time
C31_Witness ==
    /\ ret = "rec_connect"
    /\ cached_connect_failure_count = 2
    /\ connect_failure_streak >= 2


\* ---- claims: the channel strengths (SpecNotify) -----------------------------

\* send_command is called with strengths in this step
StrengthsSent == called' # <<>> /\ called'[1].strengths # None

\* the status handler gets a PowerUpdate with both strength bytes in this step
PowerUpdateDelivered ==
    /\ delivered' # <<>>
    /\ Len(delivered'[1]) >= 4
    /\ delivered'[1][1] = CMD_POWER_UPDATE

\* the status handler gets a PowerUpdate of any length in this step
PowerUpdateNotified ==
    /\ delivered' # <<>>
    /\ Len(delivered'[1]) >= 1
    /\ delivered'[1][1] = CMD_POWER_UPDATE

GeneratedPulses(p) ==
    [channel_a |-> [i \in 1..PULSES_PER_PACKET |->
                      [duration |-> p.duration, intensity |-> p.intensity]],
     channel_b |-> [i \in 1..PULSES_PER_PACKET |->
                      [duration |-> p.duration, intensity |-> p.intensity]]]

\* C33: for every control value, every user frequency window (zero, negative
\* and inverted ones included) and every requested intensity, the pulse
\* create_pulse returns has a duration within
\* MIN_PULSE_DURATION_MS..MAX_PULSE_DURATION_MS, an intensity within 0..100
\* and a frequency of at least 1, and send_command's validation keeps a
\* packet made of it.
C33_PulseInEnvelope ==
    pulse # <<>> =>
        LET p == pulse[1].result
        IN  /\ MIN_PULSE_DURATION_MS <= p.duration
            /\ p.duration <= MAX_PULSE_DURATION_MS
            /\ 0 <= p.intensity /\ p.intensity <= 100
            /\ p.frequency >= 1
            /\ valid_pulses(Some(GeneratedPulses(p)))
                   = Some(GeneratedPulses(p))

\* create_pulse was called with an inverted window, a negative control value
\* and an intensity above 100
C33_Witness ==
    /\ pulse # <<>>
    /\ pulse[1].user_freq_min > pulse[1].user_freq_max
    /\ pulse[1].raw_value < 0
    /\ pulse[1].intensity > 100
    /\ pulse[1].result.intensity = 100


\* ---- claims: the sequence number under concurrent calls (SpecSeq) -----------

\* a send_command call has written its frame successfully in this step
CommandWritten == returned' = <<TRUE>> /\ PowerCommandWritten'

\* C34: under every interleaving of concurrent send_command calls, each
\* successful write advances the sequence number by exactly one (modulo 16),
\* and two acknowledgement-requesting frames written successfully one after
\* the other never carry the same sequence nibble.
C34_SequencePerWrite ==
    [][CommandWritten =>
         /\ sequence_number' = (sequence_number + 1) % SEQUENCE_MODULO
         /\ (written'.strengths # None /\ last_ack # <<>>)
            => written'.command[2] \div 16 # last_ack[1]]_vars


\* ---- claims: one update loop (SpecLoops) ------------------------------------

\* the update_loop coroutines that were scheduled and have not returned
ActiveUpdateLoops == {t \in {"U", "V"} : pc[t] \notin {"idle", "u_exit"}}

\* the update_loop coroutines suspended in the write of a pulse packet
SendingUpdateLoops == {t \in {"U", "V"} : pc[t] = "u_write"}

\* C35: for any sequence of start_updates() and stop_updates() calls, at most
\* one update loop is active at any time, and never do two update loops
\* generate and send pulse packets concurrently.
C35_OneUpdateLoop ==
    /\ Cardinality(SendingUpdateLoops) <= 1
    /\ Cardinality(ActiveUpdateLoops) <= 1


\* ---- claims: the state after shutdown (Spec) --------------------------------

\* disconnect() has returned and the connection loop has left its while loop
ShutDown == pc["D"] = "done" /\ pc["L"] = "halted"

\* C36: once disconnect() has returned and the connection loop has halted,
\* the stage is DISCONNECTED and the client handle is None, whatever the loop
\* was doing when disconnect() was called: no client created or connected by
\* the loop survives the shutdown.
C36_NothingSurvivesShutdown ==
    ShutDown => /\ connection_stage = DISCONNECTED
                /\ client = "none"
                /\ ~link_up


\* ---- teardowns and the update loop (SpecTeardown) ---------------------------
\* The connection loop with a transient failure (service discovery raising),
\* the three ways a live session is torn down (reset_connection(), a link
\* drop, disconnect()) and the update loop started by start_updates().

TeardownLoopStep ==
    /\ pc["U"] \notin UpdateRunning
    /\ \/ LoopIteration({"go", "idle"})
       \/ ScanDone({"filter"}, {"A"})
       \/ ConnectOk
       \/ ServiceDiscoveryDone({"services", "error"})
       \/ InitialZeroWritten(Reliable)
       \/ SubscribeDone(Reliable)
       \/ SyncParametersWritten(Reliable)
       \/ SyncBatteryRead
       \/ ZeroWritten("L")
       \/ LinkDisconnectDone("L")

NextTeardown ==
    \/ TeardownLoopStep
    \/ connection_stage = CONNECTED /\ Disconnect
    \/ ZeroWritten("D")
    \/ LinkDisconnectDone("D")
    \/ connection_stage = CONNECTED /\ pc["D"] = "idle" /\ ResetConnection
    \/ connection_stage = CONNECTED /\ pc["D"] = "idle" /\ LinkDrop
    \/ StartUpdates
    \/ UpdateStep

SpecTeardown == InitSeq /\ [][NextTeardown]_vars


\* ---- claims: running across teardowns (SpecTeardown) -----------------------

\* task t enters _disconnect_client and suspends in one of its awaits
TeardownBegins(t) ==
    pc[t] \notin {"dc_write", "dc_disc"} /\ pc'[t] \in {"dc_write", "dc_disc"}

\* a call of start_updates(): the update loop is scheduled, the connection
\* loop and disconnect() do not move
StartUpdatesCalled ==
    /\ pc["U"] \in {"idle", "u_exit"}
    /\ pc'["U"] = "u_sleep"
    /\ pc'["L"] = pc["L"]
    /\ pc'["D"] = pc["D"]
    /\ connection_stage' = connection_stage

\* C37: every link teardown performed while a client handle exists sets
\* running to false (the teardown awaits something exactly when there is a
\* client), and running becomes true only in a call of start_updates(): no
\* step of the connection loop or of disconnect() sets it, so after a
\* reconnect an update loop that finds running false returns.
C37_TeardownStopsUpdates ==
    [][/\ \A t \in {"L", "D"} :
            TeardownBegins(t) => client = "handle" /\ ~running'
       /\ (~shutdown /\ shutdown' /\ client = "handle") => TeardownBegins("D")
       /\ (~running /\ running') => StartUpdatesCalled
       /\ (~running /\ ~running' /\ pc["U"] = "u_top")
            => pc'["U"] \in {"u_top", "u_exit"}
      ]_vars

\* a second session is CONNECTED, the update loop started in the first one
\* has found running false and returned
C37_Witness ==
    /\ connection_stage = CONNECTED
    /\ sessions = 2
    /\ ~running
    /\ pc["U"] = "u_exit"


\* ---- the CONNECTED branch on an unreliable link (SpecConnected) -------------
\* The connection loop on the clock as in SpecTimer; while the stage is
\* CONNECTED the link may drop, the periodic parameter write may fail,
\* reset_connection() and disconnect() may be called.

\* a write attempt of the periodic parameter resend failed
TimedConnectedWriteFailed ==
    /\ pc["L"] = "conn_write"
    /\ Commit(clock(Cur, connected_written(Cur, FALSE), iteration_sleep(TRUE)))

ConnectedLinkDrop ==
    /\ connection_stage = CONNECTED
    /\ pc["D"] = "idle"
    /\ sessions < MaxSessions
    /\ LinkDrop

ConnectedDisconnect ==
    /\ connection_stage = CONNECTED
    /\ Disconnect

NextConnected ==
    \/ NextTimer
    \/ TimedConnectedWriteFailed
    \/ ConnectedLinkDrop
    \/ ConnectedDisconnect
    \/ \E t \in {"L", "D"} : ZeroWritten(t)
    \/ LinkDisconnectDone("D")

\* no address is cached and the platform is not Windows (neither matters
\* once the stage is CONNECTED)
InitConnected == InitTimer /\ ~is_win /\ last_device_address = "none"

SpecConnected == InitConnected /\ [][NextConnected]_vars


\* ---- claims: failures in the CONNECTED branch (SpecConnected) --------------

\* "await self._send_parameters()" of the CONNECTED branch returned False:
\* the last write attempt failed, or nothing was written after the battery
\* read because the link was gone
ResendFailed ==
    /\ pc["L"] \in {"conn_write", "conn_batt_r"}
    /\ pc'["L"] = "top"
    /\ written' = NoCall

\* "await self._read_battery_level()" of the CONNECTED branch returned with
\* the link down: read_gatt_char raised, or nothing was read
BatteryReadFailed ==
    /\ pc["L"] \in {"conn_batt", "conn_batt_r"}
    /\ pc'["L"] \notin {"conn_batt", "conn_batt_r"}
    /\ ~link_up

LeavesConnected ==
    connection_stage = CONNECTED /\ connection_stage' # CONNECTED

\* the connection loop ends an iteration that tore the link down because it
\* found the link dropped or a temporary disconnect requested
EndsTeardownIteration ==
    /\ pc'["L"] \in LoopTops
    /\ pc'["L"] # pc["L"] \/ pc["L"] \in LoopTops
    /\ ret' \in {"drop", "force"}

\* C38: while the stage is CONNECTED, a failed periodic parameter resend or
\* a failed battery read leaves the stage CONNECTED, and after a failed
\* resend _last_parameter_resend is the current_time of that iteration; the
\* stage leaves CONNECTED only at the end of an iteration that found the link
\* dropped or a temporary disconnect requested, or in a step of disconnect().
C38_FailuresKeepConnected ==
    [][/\ (connection_stage = CONNECTED /\ (ResendFailed \/ BatteryReadFailed))
            => connection_stage' = CONNECTED
       /\ ResendFailed => last_parameter_resend' = now
       /\ LeavesConnected => EndsTeardownIteration \/ pc'["D"] # pc["D"]
      ]_vars

\* a periodic resend has just failed on a dropped link, after a battery read
\* that failed as well: the stage is still CONNECTED and the resend timer
\* was restarted at that iteration, later than the first
C38_Witness ==
    /\ connection_stage = CONNECTED
    /\ pc["L"] = "top"
    /\ pc["D"] = "idle"
    /\ ~link_up
    /\ ret = "none"
    /\ branch = CONNECTED
    /\ last_parameter_resend > 0
    /\ last_parameter_resend = last_battery_poll
    /\ now = last_parameter_resend + iteration_sleep(TRUE)


\* ---- claims: the cooldown of the cached address (SpecScan) -----------------

\* client.connect() to the cached address failed and the address stays cached
CachedConnectFailedKept ==
    /\ pc["L"] = "connect_wait"
    /\ ret' = "rec_connect"
    /\ using_cached_address
    /\ last_device_address # "none"
    /\ last_device_address' # "none"

\* an iteration of the SCANNING branch calls _scan_for_device
ScanAttemptStarts ==
    /\ pc["L"] \in LoopTops
    /\ branch' = SCANNING
    /\ pc'["L"] = "scan_filter" \/ scanned' # <<>>

\* the address is cached and a connect to it has failed since it was last
\* matched or connected
InCooldown == last_device_address # "none" /\ cached_connect_failure_count > 0

\* _scan_for_device returns without a device
ScanReturnsNothing == scanned' # <<>> /\ ~scanned'[1].found

\* a fresh discovery step of _scan_for_device returns a device
FreshMatch ==
    scanned' # <<>> /\ scanned'[1].found /\ scanned'[1].step \in FreshSteps

\* C39: a connect failure on the cached address that leaves it cached sets
\* the cooldown to 2; a scan attempt started in the cooldown does not bind the
\* cached address, neither first nor deferred, and takes 1 off the cooldown
\* whether or not it finds something; a miss leaves the cooldown alone; the
\* attempt started when the cooldown is at 0 binds the cached address as its
\* first step; a fresh match sets the cooldown to 0; and off Windows, where
\* the miss streak counts the misses since the bind, cooldown and misses add
\* up to 2 between attempts.
C39_CooldownSkipsTwoScans ==
    [][/\ CachedConnectFailedKept => skip_cached_reconnect_scans' = 2
       /\ (ScanAttemptStarts /\ InCooldown /\ skip_cached_reconnect_scans > 0)
            => /\ skip_cached_reconnect_scans'
                      = skip_cached_reconnect_scans - 1
               /\ pc'["L"] = "scan_filter"
               /\ ~deferred'
       /\ (ScanAttemptStarts /\ InCooldown /\ skip_cached_reconnect_scans = 0)
            => /\ scanned' = <<[found |-> TRUE, step |-> "cached",
                                address |-> last_device_address]>>
               /\ using_cached_address'
       /\ (ScanReturnsNothing /\ ~ScanAttemptStarts)
            => skip_cached_reconnect_scans' = skip_cached_reconnect_scans
       /\ FreshMatch => skip_cached_reconnect_scans' = 0
       /\ (InCooldown /\ ~is_win /\ pc["L"] \in LoopTops
              /\ skip_cached_reconnect_scans > 0)
            => skip_cached_reconnect_scans + scan_failure_streak = 2
      ]_vars

\* the cached address is bound again after a connect to it failed once: the
\* two attempts in between found nothing (a match or a connection would have
\* reset the count of failures)
C39_Witness ==
    /\ connection_stage = CONNECTING
    /\ using_cached_address
    /\ cached_connect_failure_count = 1
    /\ skip_cached_reconnect_scans = 0
    /\ scanned # <<>>


\* ---- an environment that settles (SpecSettle) ------------------------------
\* Scans may miss, link operations may fail, the link may drop and
\* reset_connection() may be called, until the environment settles: from then
\* on every scan finds the peripheral by its advertisement, every operation
\* on a live link succeeds, the scan deadline passes, the link stays up and
\* no request arrives. disconnect() is never called.

\* the environment settles (while the peripheral accepts another link)
Settle ==
    /\ ~settled
    /\ sessions < MaxSessions
    /\ Commit([Cur EXCEPT !.settled = TRUE])

UnsettledStep ==
    /\ ~settled
    /\ \/ LoopStep
       \/ ResetConnection
       \/ LinkDrop

\* client.connect() returns in the settled environment (a request made
\* before may still tear the new link down once, so that two links follow)
SettledConnectOk ==
    /\ pc["L"] = "connect_wait"
    /\ sessions < MaxSessions + 2
    /\ Commit(connecting_connected(Cur))

\* the steps of the connection loop in the settled environment: an operation
\* succeeds unless the link it was started on has gone
SettledLoopStep ==
    /\ settled
    /\ \/ LoopIteration({"go", "idle", "batt", "resend", "both"})
       \/ ScanDone({"filter"}, {"A"})
       \/ SettledConnectOk
       \/ ServiceDiscoveryDone({IF link_up THEN "services" ELSE "error"})
       \/ InitialZeroWritten({CanSucceed("L")})
       \/ SubscribeDone({link_up})
       \/ SyncParametersWritten({CanSucceed("L")})
       \/ SyncBatteryRead
       \/ ConnectedBatteryRead
       \/ ConnectedWritten({CanSucceed("L")})
       \/ BackoffDone
       \/ ZeroWritten("L")
       \/ LinkDisconnectDone("L")

\* the parameters fit their bytes, so that the parameter frame can be built
InitSettle == Init /\ fits_bytes(ParameterCommand(parameters))

NextSettle ==
    \/ UnsettledStep
    \/ Settle
    \/ SettledLoopStep

\* the event loop resumes the connection loop whenever the operation it
\* awaits has returned
SpecSettle == InitSettle /\ [][NextSettle]_vars /\ WF_vars(SettledLoopStep)


\* ---- claims: reaching CONNECTED (SpecSettle) -------------------------------

\* C40: with no permanent disconnect, once every scan finds the peripheral
\* and every link operation succeeds, the stage eventually becomes CONNECTED
\* under fair scheduling of the connection loop, from whatever stage and
\* whatever values of the failure counters, the cooldown counter and the
\* next-scan deadline the environment settled at.
C40_EventuallyConnected == settled ~> connection_stage = CONNECTED

\* the environment settled with a reset request pending and a connect under
\* way: the link made then was torn down for the request, and the stage has
\* become CONNECTED on the link after it
C40_Witness ==
    /\ settled
    /\ connection_stage = CONNECTED
    /\ sessions = MaxSessions + 1
    /\ pc["L"] = "top"

=============================================================================
